---------------------------- MODULE Spec2Model ----------------------------
(***************************************************************************)
(* A model of the platform GUI abstraction of SolveSpace                   *)
(* (src/platform/gui.h) and of its two adapters, the GTK one               *)
(* (src/platform/guigtk.cpp) and the Win32 one (src/platform/guiwin.cpp).  *)
(* Exactly one adapter is linked into a build: the variable backend is     *)
(* chosen in the initial state and never changes.                          *)
(*                                                                         *)
(* The module holds one specification per component:                       *)
(*   SpecTimer   the single-shot timers (Timer, TimerImplGtk,              *)
(*               TimerImplWin32) and the host's timer facility.            *)
(*   SpecLoop    the single thread's call stack: the callbacks of native   *)
(*               events, Menu::PopUp and Window::Redraw.                   *)
(*   SpecMenu    the menu tree: which menu, item and caller holds a        *)
(*               shared_ptr to which object, and what Clear destroys.      *)
(*   SpecItem    the state of a menu item: indicator, active, enabled.     *)
(*   SpecEditor  the editor overlay of a window: ShowEditor, HideEditor.   *)
(*   SpecPlacement  the placement of a window: FreezePosition,             *)
(*               ThawPosition.                                             *)
(*   SpecScrollbar  the vertical scrollbar of a window.                    *)
(*   SpecMenuBar  the menu bar of a window: SetMenuBar.                    *)
(*   SpecEquals  KeyboardEvent::Equals.                                    *)
(*   SpecPointer  the pointer events of a window and the popup cancel      *)
(*               time.                                                     *)
(*   SpecKeyboard  the key events of a window.                             *)
(*   SpecNative  the native calls of the win32 adapter that can fail.      *)
(*   SpecFullScreen  the full screen state of the win32 window.            *)
(*   SpecWndProc  the window procedures of the win32 adapter and the       *)
(*               callbacks they invoke.                                    *)
(***************************************************************************)
EXTENDS Integers, Sequences, FiniteSets, TLC

(***************************************************************************)
(* Bounds of the model.                                                    *)
(***************************************************************************)
\* How many times WindUp is called on one Timer.
MaxWindUps == 2

\* How many frames the call stack of the event-loop thread holds.
MaxDepth == 4

\* How many menu and menu item objects are ever constructed.
MaxObjs == 3

\* How many separators the menus hold together.
MaxSeparators == 1

\* How many characters the text in the editor overlay has.
MaxText == 2

\* How often onTrigger of one menu item is counted.
MaxTriggers == 2

\* How many menu bars are ever constructed.
MaxBars == 2

\* How many steps the clock advances.
MaxTicks == 3

Backends == {"gtk", "win32"}

\* The Timer objects CreateTimer has returned.
Timers == {"t1", "t2"}

VARIABLES
    backend,      \* the adapter linked into the build
    \* ---- timers ----
    timerAlive,   \* [Timers -> BOOLEAN]: FALSE once the owner destroyed the Timer
    onTimeout,    \* [Timers -> BOOLEAN]: whether Timer::onTimeout holds a callback
    connection,   \* [Timers -> Nat]: TimerImplGtk::_connection, 0 when empty(),
                  \*   else the arming whose timeout source it is connected to
    hostTimers,   \* the fires registered with the host: GLib timeout sources (gtk),
                  \*   timers of the message-only window (win32); <<timer, arming>>
    posted,       \* win32: WM_TIMER messages already posted to the queue
    running,      \* the fire whose onTimeout callback is executing, or NoHandler
    timerLog,     \* [Timers -> Seq]: what happened to each Timer, in order
    \* ---- event loop ----
    stack,        \* the call stack of the event-loop thread, innermost frame last
    shown,        \* the menus displayed as popups
    popupDone,    \* the PopUp call that returned last
    \* ---- menu tree (ownership) ----
    objKind,      \* [ObjIds -> {"none", "menu", "item"}]: what each object is
    objAlive,     \* the objects constructed and not yet destroyed
    menuItems,    \* [ObjIds -> Seq(ObjIds)]: MenuImpl*::menuItems (shared_ptr each)
    subMenus,     \* [ObjIds -> Seq(ObjIds)]: MenuImpl*::subMenus (shared_ptr each)
    entries,      \* [ObjIds -> Seq]: the entries of the native menu (gtkMenu, hMenu)
    itemMenu,     \* [ObjIds -> ObjIds \cup {0}]: MenuItemImplWin32::menu (shared_ptr)
    handles,      \* the objects the caller holds a MenuRef / MenuItemRef to
    menuLast,     \* the last operation on the menu tree
    \* ---- menu items (state) ----
    hasIndicator, \* [Items -> BOOLEAN]: GtkMenuItem::_has_indicator
    drawAsRadio,  \* [Items -> BOOLEAN]: draw_as_radio (gtk), MFT_RADIOCHECK (win32)
    active,       \* [Items -> BOOLEAN]: CheckMenuItem active (gtk), MFS_CHECKED (win32)
    enabled,      \* [Items -> BOOLEAN]: sensitive (gtk), not MFS_DISABLED (win32)
    indicator,    \* [Items -> Indicators]: the argument of the last SetIndicator
    triggered,    \* [Items -> Nat]: how often onTrigger was invoked
    itemLast,     \* the last operation on a menu item
    aborted,      \* an ssassert failed or a fault ended the process
    \* ---- editor overlay ----
    windowVisible, \* the top-level window is shown
    edShown,      \* the entry (gtk) / hEditor (win32) is marked visible
    edRect,       \* where the overlay is: [x, y, w, h]
    edText,       \* the text in the overlay
    edSel,        \* the selection of the overlay: the characters after from
                  \*   up to to are selected, the caret is at to
    edFont,       \* the font of the overlay: [height, mono]
    edGrab,       \* gtk: the overlay holds the modal grab
    edLast,       \* the last operation on the overlay, and the state before it
    edFocus,      \* what has the keyboard focus: "none", "window", "editor"
    hasEditingDone,   \* Window::onEditingDone is set
    hasKeyboardEvent, \* Window::onKeyboardEvent is set
    \* ---- window placement ----
    winRect,      \* the window's normal rectangle: [left, top, right, bottom]
    winMaximized, \* the window is maximized
    monitors,     \* the rectangles of the monitors attached now
    cnf,          \* the configuration store: setting name -> integer
    posLast,      \* the last placement operation, and the state before it
    \* ---- scrollbar ----
    sbMin,        \* the lower end of the range (adjustment lower, nMin)
    sbMax,        \* the upper end of the range (adjustment upper, nMax)
    sbPage,       \* the page size (adjustment page_size, nPage)
    sbPos,        \* the position (adjustment value, nPos)
    scrollbarVisible,     \* the scrollbar is shown (win32: scrollbarVisible)
    hasScrollbarAdjusted, \* Window::onScrollbarAdjusted is set
    sbLast,       \* the last scrollbar operation, the position before it and
                  \*   what it handed to onScrollbarAdjusted
    \* ---- menu bar ----
    barState,     \* [MenuBars -> {"new", "alive", "destroyed"}]
    barHeld,      \* the MenuBars the caller holds a MenuBarRef to
    menuBar,      \* Window::menuBar: the MenuBar the window holds, or 0
    gtkMenuBarPtr, \* gtk: GtkWindow::_menu_bar, a plain pointer, or 0
    attachedBars, \* the menu bars in _vbox (gtk), the menu of hWindow (win32)
    barCrashed,   \* undefined behaviour ended the process
    barLast,      \* the last menu bar operation, and the state before it
    \* ---- input events ----
    now,          \* GetMilliseconds(): the clock
    contextMenuCancelTime, \* win32: when a popup menu was last dismissed
    cancelUnread, \* a popup was dismissed and no button was pressed since
    hasMouseEvent, \* Window::onMouseEvent is set
    inLast,       \* the last native input event and what became of it
    eqLast,       \* the last KeyboardEvent::Equals call and its result
    \* ---- native calls ----
    placement,    \* win32: rcNormalPosition of the WINDOWPLACEMENT member
    winTitle,     \* the title of the window
    fatalError,   \* the diagnostic FatalError was called with, else <<>>
    nativeLast,   \* the last operation and the native calls it made
    \* ---- win32 window ----
    overlapped,   \* win32: the style of the window has WS_OVERLAPPEDWINDOW
    showCmd,      \* win32: showCmd of the WINDOWPLACEMENT member
    fsLast,       \* the last SetFullScreen call, and the placement before
                  \*   the window went full screen
    hasRender,    \* Window::onRender is set
    hasClose,     \* Window::onClose is set
    handlingFatalError, \* win32: the handling of a fatal error has begun
    wndLast       \* the last message a window procedure was called with
                  \*   and the callbacks it invoked

timerVars == <<timerAlive, onTimeout, connection, hostTimers, posted, running, timerLog>>

loopVars == <<stack, shown, popupDone>>

menuVars == <<objKind, objAlive, menuItems, subMenus, entries, itemMenu, handles, menuLast>>

itemVars == <<hasIndicator, drawAsRadio, active, enabled, indicator, triggered, itemLast, aborted>>

editorVars == <<windowVisible, edShown, edRect, edText, edSel, edFont, edGrab, edLast,
                edFocus, hasEditingDone, hasKeyboardEvent>>

posVars == <<winRect, winMaximized, monitors, cnf, posLast>>

sbVars == <<sbMin, sbMax, sbPage, sbPos, scrollbarVisible, hasScrollbarAdjusted, sbLast>>

barVars == <<barState, barHeld, menuBar, gtkMenuBarPtr, attachedBars, barCrashed, barLast>>

inVars == <<now, contextMenuCancelTime, cancelUnread, hasMouseEvent, inLast, eqLast>>

nativeVars == <<placement, winTitle, fatalError, nativeLast>>

wndVars == <<overlapped, showCmd, fsLast, hasRender, hasClose, handlingFatalError, wndLast>>

vars == <<backend, timerVars, loopVars, menuVars, itemVars, editorVars, posVars, sbVars, barVars, inVars, nativeVars, wndVars>>

\* What the operations of one component leave alone.
OnlyTimers == UNCHANGED <<backend, loopVars, menuVars, itemVars, editorVars, posVars, sbVars, barVars, inVars, nativeVars, wndVars>>

\* The operations of the event-loop thread write, besides their own state,
\* the cancel time of the popup menus (MenuImplWin32::PopUp) and the position
\* of the scrollbar (Window::SetScrollbarPosition).
OnlyLoop ==
    UNCHANGED <<backend, timerVars, menuVars, itemVars, editorVars, posVars,
                sbMin, sbMax, sbPage, scrollbarVisible, hasScrollbarAdjusted, barVars,
                now, hasMouseEvent, inLast, eqLast, nativeVars, wndVars>>

OnlyMenus == UNCHANGED <<backend, timerVars, loopVars, itemVars, editorVars, posVars, sbVars, barVars, inVars, nativeVars, wndVars>>

OnlyItems == UNCHANGED <<backend, timerVars, loopVars, menuVars, editorVars, posVars, sbVars, barVars, inVars, nativeVars, wndVars>>

OnlyEditor == UNCHANGED <<backend, timerVars, loopVars, menuVars, itemVars, posVars, sbVars, barVars, inVars, nativeVars, wndVars>>

\* The placement operations leave the editor overlay alone, but for the
\* visibility of the window and the focus that comes with it; of the win32
\* window they write the WINDOWPLACEMENT member.
OnlyPlacement ==
    UNCHANGED <<backend, timerVars, loopVars, menuVars, itemVars,
                edShown, edRect, edText, edSel, edFont, edGrab, edLast,
                hasEditingDone, hasKeyboardEvent, sbVars, barVars, inVars,
                winTitle, fatalError, nativeLast,
                overlapped, fsLast, hasRender, hasClose, handlingFatalError, wndLast>>

OnlyScrollbar ==
    UNCHANGED <<backend, timerVars, loopVars, menuVars, itemVars, editorVars, posVars, barVars, inVars, nativeVars, wndVars>>

OnlyMenuBar ==
    UNCHANGED <<backend, timerVars, loopVars, menuVars, itemVars, editorVars, posVars, sbVars, inVars, nativeVars, wndVars>>

OnlyInput ==
    UNCHANGED <<backend, timerVars, loopVars, menuVars, itemVars, editorVars, posVars, sbVars, barVars, nativeVars, wndVars>>

OnlyNative ==
    UNCHANGED <<backend, timerVars, loopVars, menuVars, itemVars, editorVars, posVars, sbVars, barVars, inVars, wndVars>>

OnlyWnd ==
    UNCHANGED <<backend, timerVars, loopVars, menuVars, itemVars, editorVars, posVars, sbVars, barVars, inVars>>

(***************************************************************************)
(* Native calls of the win32 adapter and how they end.                     *)
(***************************************************************************)
S_OK == "S_OK"

\* What a native call can do: succeed; return zero with no last error (a
\* zero that is an answer: IsZoomed of a window that is not maximized);
\* fail, returning zero with a last error set.
NativeOutcomes ==
    {[result |-> TRUE, lastError |-> S_OK],
     [result |-> FALSE, lastError |-> S_OK],
     [result |-> FALSE, lastError |-> "ERROR_INVALID_WINDOW_HANDLE"]}

\* The call succeeded.
Succeeded == [result |-> TRUE, lastError |-> S_OK]

\* The call failed.
Failed(outcome) == ~outcome.result /\ outcome.lastError # S_OK

\* CheckLastError: the diagnostic given to FatalError, none when no last
\* error is set.
CheckLastError(function, expr, lastError) ==
    IF lastError # S_OK
    THEN <<[function |-> function, expr |-> expr, error |-> lastError]>>
    ELSE <<>>

\* sscheck(expr): CheckLastError when the result is zero.
sscheck(function, expr, outcome) ==
    IF ~outcome.result
    THEN CheckLastError(function, expr, outcome.lastError)
    ELSE <<>>

\* The process is running: FatalError was not called.
Running == fatalError = <<>>

\* GetWindowPlacement(hWindow, &placement): the member is filled in when the
\* call succeeds and keeps what it held when it does not.
GetWindowPlacement(outcome) == IF outcome.result THEN winRect ELSE placement

\* The showCmd GetWindowPlacement reports for the window.
ShowState == IF winMaximized THEN "SW_SHOWMAXIMIZED" ELSE "SW_SHOWNORMAL"

\* GetWindowPlacement(hWindow, &placement): showCmd of the member.
GetWindowPlacementShowCmd(outcome) == IF outcome.result THEN ShowState ELSE showCmd

(***************************************************************************)
(* Doubles.  The interface of a Window speaks in doubles.  A double d is   *)
(* modelled by the integer d * Resolution, Resolution being twice          *)
(* SCROLLBAR_UNIT.                                                         *)
(***************************************************************************)
\* guiwin.cpp: #define SCROLLBAR_UNIT 65536
SCROLLBAR_UNIT == 65536

\* How many model units make 1.0.
Resolution == 2 * SCROLLBAR_UNIT

\* The double n, for a whole number n.
Whole(n) == n * Resolution

\* The smallest step of the win32 fixed point, as a double.
OneUnit == Resolution \div SCROLLBAR_UNIT

(***************************************************************************)
(* Helpers over the history of one Timer.                                  *)
(***************************************************************************)
NoHandler == <<>>

\* The number of entries of log whose operation is op.
CountOp(log, op) == Cardinality({i \in 1..Len(log) : log[i][1] = op})

NumWindUps(t) == CountOp(timerLog[t], "WindUp")

\* How often the fire handler of t ran on the live object.
HandlerRuns(t) == CountOp(timerLog[t], "Timeout") + CountOp(timerLog[t], "NoCallback")

\* The fires registered with the host for Timer t.
Registrations(t) == {s \in hostTimers : s[1] = t}

Logged(t, op, n) == timerLog' = [timerLog EXCEPT ![t] = Append(@, <<op, n>>)]

\* What the read of onTimeout through a destroyed Timer can come to: the
\* memory still holds the callback, which is invoked; it holds an empty
\* function; the process crashes.
UseAfterFreeOutcomes == {"callback", "nothing", "crash"}

\* The process is gone: a read through a destroyed Timer crashed it.
TimerCrashed ==
    \E t \in Timers : \E i \in 1..Len(timerLog[t]) : timerLog[t][i][1] = "Crash"

\* The process runs: no FatalError, no crash.
TimersRun == Running /\ ~TimerCrashed

\* No fire of a correct adapter is left once every arming has fired.
MaxLogLen == 3 * MaxWindUps + 2

(***************************************************************************)
(* Timer::WindUp                                                           *)
(***************************************************************************)
\* TimerImplGtk::WindUp without the disconnect of the earlier connection.
GtkWindUpNoDisconnect(t) ==
    LET n == NumWindUps(t) + 1
    IN  /\ hostTimers' = hostTimers \cup {<<t, n>>}
        /\ connection' = [connection EXCEPT ![t] = n]
        /\ UNCHANGED posted

\* TimerImplGtk::WindUp: disconnect a non-empty _connection, then connect a
\* new timeout source whose handler captures this.
GtkWindUp(t) ==
    LET n == NumWindUps(t) + 1
        disconnected == IF connection[t] # 0
                        THEN hostTimers \ {<<t, connection[t]>>}
                        ELSE hostTimers
    IN  /\ hostTimers' = disconnected \cup {<<t, n>>}
        /\ connection' = [connection EXCEPT ![t] = n]
        /\ UNCHANGED posted

\* TimerImplWin32::WindUp: SetTimer(WindowHandle(), (UINT_PTR)this, ms, TimerFunc);
\* a timer of the same window with the same id is replaced.  A WM_TIMER
\* already posted stays in the queue.
Win32WindUp(t) ==
    LET n == NumWindUps(t) + 1
    IN  /\ hostTimers' = (hostTimers \ Registrations(t)) \cup {<<t, n>>}
        /\ UNCHANGED <<connection, posted>>

\* A call of WindUp on a live Timer, from the application or from inside the
\* onTimeout callback that is executing.
WindUp(t) ==
    /\ TimersRun
    /\ timerAlive[t]
    /\ NumWindUps(t) < MaxWindUps
    /\ IF backend = "gtk" THEN GtkWindUp(t) ELSE Win32WindUp(t)
    /\ Logged(t, "WindUp", NumWindUps(t) + 1)
    /\ OnlyTimers /\ UNCHANGED <<timerAlive, onTimeout, running>>

\* The application assigns or clears the public field Timer::onTimeout.
SetOnTimeout(t, b) ==
    /\ TimersRun
    /\ timerAlive[t]
    /\ onTimeout[t] # b
    /\ onTimeout' = [onTimeout EXCEPT ![t] = b]
    /\ OnlyTimers /\ UNCHANGED <<timerAlive, connection, hostTimers, posted, running, timerLog>>

(***************************************************************************)
(* The fire of a timer.                                                    *)
(***************************************************************************)
\* A handler that asks GLib to keep the source (a repeating timeout).
GtkHandlerRepeats == TRUE

\* The value the handler lambda of TimerImplGtk::WindUp returns: false, so
\* GLib destroys the source after the first dispatch.
GtkHandlerResult == FALSE

\* GLib after the handler of source s returned: the source is destroyed
\* unless the handler returned true, and a connection to it becomes empty.
GtkAfterHandler(s) ==
    IF GtkHandlerResult
    THEN UNCHANGED <<hostTimers, connection>>
    ELSE /\ hostTimers' = hostTimers \ {s}
         /\ connection' = [connection EXCEPT
                              ![s[1]] = IF @ = s[2] THEN 0 ELSE @]

\* The body of a fire handler, common to the lambda of TimerImplGtk::WindUp
\* and to TimerImplWin32::TimerFunc: it reads onTimeout through the Timer
\* pointer it holds and invokes it when set.  On a destroyed Timer that read
\* is a use after free, which comes to uaf: the callback the Timer held when
\* it was destroyed runs, or nothing runs, or the process crashes.
HandlerBody(s, uaf) ==
    LET t == s[1]
    IN  IF ~timerAlive[t]
        THEN /\ uaf = "callback" => onTimeout[t]
             /\ IF uaf = "crash"
                THEN timerLog' = [timerLog EXCEPT
                         ![t] = Append(Append(@, <<"UseAfterFree", s[2]>>), <<"Crash", s[2]>>)]
                ELSE Logged(t, "UseAfterFree", s[2])
             /\ running' = IF uaf = "callback" THEN s ELSE NoHandler
        ELSE IF onTimeout[t]
        THEN /\ Logged(t, "Timeout", s[2])
             /\ running' = s
        ELSE /\ Logged(t, "NoCallback", s[2])
             /\ running' = NoHandler

\* gtk: the main loop dispatches timeout source s.
GtkDispatch(s, uaf) ==
    /\ backend = "gtk"
    /\ TimersRun
    /\ running = NoHandler
    /\ s \in hostTimers
    /\ Len(timerLog[s[1]]) < MaxLogLen
    /\ timerAlive[s[1]] => uaf = "nothing"
    /\ HandlerBody(s, uaf)
    /\ IF running' # NoHandler
       THEN UNCHANGED <<hostTimers, connection>>      \* the callback is executing
       ELSE GtkAfterHandler(s)
    /\ OnlyTimers /\ UNCHANGED <<timerAlive, onTimeout, posted>>

\* gtk: the onTimeout callback returns, and the handler after it.
GtkHandlerReturn ==
    /\ backend = "gtk"
    /\ TimersRun
    /\ running # NoHandler
    /\ GtkAfterHandler(running)
    /\ running' = NoHandler
    /\ OnlyTimers /\ UNCHANGED <<timerAlive, onTimeout, posted, timerLog>>

\* win32: the duration of a registered timer elapses and a WM_TIMER for it
\* is posted; the timer is periodic and stays registered.  At most one
\* WM_TIMER per timer id is in the queue.
Win32Elapse(s) ==
    /\ backend = "win32"
    /\ TimersRun
    /\ s \in hostTimers
    /\ \A m \in posted : m[1] # s[1]
    /\ posted' = posted \cup {s}
    /\ Logged(s[1], "Elapse", s[2])
    /\ OnlyTimers /\ UNCHANGED <<timerAlive, onTimeout, connection, hostTimers, running>>

\* What KillTimer in TimerFunc can return: the timer of a live Timer is
\* registered and is killed; the timer of a destroyed Timer was killed by
\* the destructor, so the call returns zero, with or without a last error.
KillTimerOutcomes(t) ==
    IF timerAlive[t] THEN {Succeeded} ELSE NativeOutcomes \ {Succeeded}

\* TimerImplWin32::TimerFunc: sscheck(KillTimer(WindowHandle(), event)),
\* then the callback through (TimerImplWin32*)event.  A KillTimer that
\* failed ends in FatalError before the Timer is read.
TimerFunc(m, kill, uaf) ==
    /\ hostTimers' = hostTimers \ Registrations(m[1])
    /\ fatalError' = sscheck("TimerFunc", "KillTimer(WindowHandle(), event)", kill)
    /\ IF Failed(kill)
       THEN /\ Logged(m[1], "FatalError", m[2])
            /\ running' = NoHandler
       ELSE HandlerBody(m, uaf)

\* What a step of the timers leaves alone when it may end in FatalError.
OnlyTimersAndFatalError ==
    UNCHANGED <<backend, loopVars, menuVars, itemVars, editorVars, posVars, sbVars,
                barVars, inVars, placement, winTitle, nativeLast, wndVars>>

\* win32: the message loop dispatches a posted WM_TIMER to TimerFunc.
Win32Dispatch(m, kill, uaf) ==
    /\ backend = "win32"
    /\ TimersRun
    /\ running = NoHandler
    /\ m \in posted
    /\ Len(timerLog[m[1]]) < MaxLogLen
    /\ kill \in KillTimerOutcomes(m[1])
    /\ (timerAlive[m[1]] \/ Failed(kill)) => uaf = "nothing"
    /\ posted' = posted \ {m}
    /\ TimerFunc(m, kill, uaf)
    /\ OnlyTimersAndFatalError /\ UNCHANGED <<timerAlive, onTimeout, connection>>

\* win32: the onTimeout callback returns, and TimerFunc after it.
Win32HandlerReturn ==
    /\ backend = "win32"
    /\ TimersRun
    /\ running # NoHandler
    /\ running' = NoHandler
    /\ OnlyTimers /\ UNCHANGED <<timerAlive, onTimeout, connection, hostTimers, posted, timerLog>>

(***************************************************************************)
(* Destruction of a Timer by its owner (TimerRef is a unique_ptr).         *)
(***************************************************************************)
\* TimerImplGtk has no destructor of its own: its member _connection is
\* destroyed, which does not disconnect the source.
GtkDestroyTimer(t) == UNCHANGED <<hostTimers, posted>>

\* ~TimerImplWin32: KillTimer(WindowHandle(), (UINT_PTR)this); WM_TIMER
\* messages already posted to the queue are not removed.
Win32DestroyTimer(t) ==
    /\ hostTimers' = hostTimers \ Registrations(t)
    /\ UNCHANGED posted

DestroyTimer(t) ==
    /\ TimersRun
    /\ timerAlive[t]
    /\ running = NoHandler
    /\ timerAlive' = [timerAlive EXCEPT ![t] = FALSE]
    /\ IF backend = "gtk" THEN GtkDestroyTimer(t) ELSE Win32DestroyTimer(t)
    /\ Logged(t, "Destroy", 0)
    /\ OnlyTimers /\ UNCHANGED <<onTimeout, connection, running>>

(***************************************************************************)
(* The event-loop thread.                                                  *)
(*                                                                         *)
(* Every callback runs on one thread.  The stack holds, innermost last,    *)
(*   a callback frame for each callback that is executing (what: the       *)
(*   event it serves), a PopUp frame for each Menu::PopUp call that has    *)
(*   not returned (what: the menu) and a Redraw frame for each             *)
(*   Window::Redraw call that has not returned.                            *)
(***************************************************************************)
\* The menus CreateMenu has returned and the items AddItem gave them.
Menus == {"m1", "m2"}

Items == {"i1", "i2"}

\* MenuItem::onTrigger is optional (AddItem's onTrigger defaults to NULL).
HasTrigger(i) == i = "i1"

\* The native events the host delivers to a callback of a Window or Timer.
NativeEvents == {"timer", "input", "paint"}

CallbackFrame(ev, i) ==
    [kind |-> "callback", what |-> ev, phase |-> "run", fired |-> 0, choice |-> i]

PopUpFrame(m) ==
    [kind |-> "PopUp", what |-> m, phase |-> "modal", fired |-> 0, choice |-> "none"]

RedrawFrame(ph) ==
    [kind |-> "Redraw", what |-> "-", phase |-> ph, fired |-> 0, choice |-> "-"]

NoPopUp ==
    [kind |-> "PopUp", what |-> "-", phase |-> "-", fired |-> 0, choice |-> "none"]

\* The process was ended by a fault (SIGSEGV): the thread runs nothing more.
CrashFrame ==
    [kind |-> "crash", what |-> "-", phase |-> "-", fired |-> 0, choice |-> "-"]

Top == stack[Len(stack)]

Pop == SubSeq(stack, 1, Len(stack) - 1)

IsNative(f) == f.kind = "callback" /\ f.what \in NativeEvents

\* A callback is executing: the collaborator's code may call into the core.
InCallback == IF stack = <<>> THEN FALSE ELSE Top.kind = "callback"

\* The thread is inside an event loop that takes the next native event: the
\* application's main loop, the nested loop of a PopUp (loop->run() in
\* MenuImplGtk::PopUp, TrackPopupMenu in MenuImplWin32::PopUp), or the
\* Gtk::Main::iteration of WindowImplGtk::Redraw.
CanDispatch ==
    IF stack = <<>>
    THEN TRUE
    ELSE IF Top.kind = "PopUp"
    THEN Top.phase = "modal"
    ELSE Top.kind = "Redraw" /\ Top.phase = "iteration"

\* The host dispatches a native event to its callback (the handler of a
\* timer, process_pointer_event / process_key_event / on_render, WndProc).
\* While a menu is displayed it holds the input grab; a window is painted
\* while it is shown, and the paint handlers invoke onRender when it is set.
DispatchEvent(ev) ==
    /\ CanDispatch
    /\ Len(stack) < MaxDepth
    /\ ev = "input" => shown = {}
    /\ ev = "paint" => windowVisible /\ hasRender
    /\ stack' = Append(stack, CallbackFrame(ev, "-"))
    /\ OnlyLoop
    /\ UNCHANGED <<shown, popupDone, contextMenuCancelTime, cancelUnread, sbPos, sbLast>>

CallbackReturn ==
    /\ InCallback
    /\ stack' = Pop
    /\ OnlyLoop
    /\ UNCHANGED <<shown, popupDone, contextMenuCancelTime, cancelUnread, sbPos, sbLast>>

(***************************************************************************)
(* Menu::PopUp                                                             *)
(***************************************************************************)
\* MenuImplGtk::PopUp up to loop->run(): gtkMenu.popup() displays the menu,
\* whatever else is displayed.
GtkPopUp(m) ==
    /\ stack' = Append(stack, PopUpFrame(m))
    /\ shown' = shown \cup {m}
    /\ UNCHANGED <<popupDone, contextMenuCancelTime, cancelUnread>>

\* MenuImplWin32::PopUp, id == 0: contextMenuCancelTime = GetMilliseconds().
Win32PopUpCancelled ==
    /\ contextMenuCancelTime' = now
    /\ cancelUnread' = TRUE

\* MenuImplWin32::PopUp up to TrackPopupMenu: while a popup menu is
\* displayed (this menu or another) TrackPopupMenu fails and returns 0,
\* which PopUp takes for a cancellation; it writes the cancel time, returns
\* at once and displays nothing.
Win32PopUp(m) ==
    IF shown # {}
    THEN /\ popupDone' = [NoPopUp EXCEPT !.what = m, !.phase = "failed"]
         /\ Win32PopUpCancelled
         /\ UNCHANGED <<stack, shown>>
    ELSE /\ stack' = Append(stack, PopUpFrame(m))
         /\ shown' = shown \cup {m}
         /\ UNCHANGED <<popupDone, contextMenuCancelTime, cancelUnread>>

\* A callback calls PopUp on a menu.
CallPopUp(m) ==
    /\ InCallback
    /\ Len(stack) < MaxDepth
    /\ IF backend = "gtk" THEN GtkPopUp(m) ELSE Win32PopUp(m)
    /\ OnlyLoop /\ UNCHANGED <<sbPos, sbLast>>

\* The id of a menu item is its address ((UINT_PTR)&*menuItem in AddItem).
\* TrackPopupMenu hands it back as an int and GetMenuItemID as a UINT, and
\* the adapter casts that to MenuItemImplWin32 *.  "item": the address
\* survived (a 32-bit build, an item below 4 GiB) and the pointer is the
\* item.  On a 64-bit build an address above 4 GiB comes back cut to 32
\* bits; reading onTrigger through that pointer is undefined: "crash", the
\* address is not mapped; "empty", what is there reads as no callback.
ItemIdOutcomes == {"item", "crash", "empty"}

\* GtkMenuItem::on_activate: how many times it invokes _receiver->onTrigger.
GtkOnActivate(synthetic, i) ==
    IF ~synthetic /\ HasTrigger(i) THEN 1 ELSE 0

\* MenuImplWin32::PopUp after TrackPopupMenu returned id ("none" for 0, no
\* selection): how many times it invokes menuItem->onTrigger, menuItem being
\* what the cast of id points to.
Win32PopUpTriggers(id, deref) ==
    IF id = "none" THEN 0
    ELSE IF deref = "item" /\ HasTrigger(id) THEN 1 ELSE 0

\* ... and whether the read of menuItem->onTrigger ends the process.
Win32PopUpCrashes(id, deref) == id # "none" /\ deref = "crash"

\* The onTrigger invocations of a selection of item i ...
Triggers(i, deref) ==
    IF backend = "gtk" THEN GtkOnActivate(FALSE, i) ELSE Win32PopUpTriggers(i, deref)

\* ... and of a dismissal: gtk emits only deactivate, win32 gets id 0.
DismissTriggers ==
    IF backend = "gtk" THEN 0 ELSE Win32PopUpTriggers("none", "item")

\* The stack once the PopUp calls that display menu m are resolved: choice
\* is what the user did and n the onTrigger invocations that follow.  gtk:
\* every PopUp call connected its own handler to the deactivate signal of
\* gtkMenu, and each quits its loop.
Resolved(m, choice, n) ==
    [k \in 1..Len(stack) |->
        IF stack[k].kind = "PopUp" /\ stack[k].what = m /\ stack[k].phase = "modal"
        THEN [stack[k] EXCEPT !.phase = "resolved", !.choice = choice, !.fired = @ + n]
        ELSE stack[k]]

\* An enabled item is activated by the user.  gtk: GtkMenuItem::on_activate
\* calls Gtk::CheckMenuItem::on_activate, which toggles the check state,
\* then onTrigger.  win32: onTrigger only, read through the cast of the
\* item's id, which may end the process.
ItemActivated(i, deref) ==
    /\ IF backend = "gtk"
       THEN /\ active' = [active EXCEPT ![i] = ~@]
            /\ triggered' = [triggered EXCEPT ![i] = @ + GtkOnActivate(FALSE, i)]
            /\ UNCHANGED aborted
       ELSE /\ triggered' = [triggered EXCEPT ![i] = @ + Win32PopUpTriggers(i, deref)]
            /\ aborted' = Win32PopUpCrashes(i, deref)
            /\ UNCHANGED active
    /\ itemLast' = [op |-> "UserActivate", item |-> i, was |-> indicator[i],
                    before |-> active[i]]

\* What a selection in a popup menu leaves alone.
OnlySelection ==
    UNCHANGED <<backend, timerVars, menuVars, hasIndicator, drawAsRadio, enabled, indicator,
                editorVars, posVars, sbVars, barVars, inVars, nativeVars, wndVars>>

\* The user selects item i of the displayed menu m.  gtk: the menu shell is
\* deactivated (the deactivate handler calls loop->quit()), then the item is
\* activated and on_activate runs.  win32: TrackPopupMenu returns the item's
\* id and PopUp invokes its onTrigger.  Either way the menu is taken down
\* first and the callback runs inside the PopUp call.  win32: PopUp reads
\* onTrigger through the cast of the id, which may end the process.
UserSelect(m, i, deref) ==
    /\ CanDispatch
    /\ Len(stack) < MaxDepth
    /\ m \in shown
    /\ enabled[i]
    /\ triggered[i] < MaxTriggers
    /\ backend = "gtk" => deref = "item"
    /\ ItemActivated(i, deref)
    /\ LET n == Triggers(i, deref)
           resolved == Resolved(m, i, n)
       IN  stack' = IF backend = "win32" /\ Win32PopUpCrashes(i, deref)
                    THEN Append(resolved, CrashFrame)
                    ELSE IF n > 0
                    THEN Append(resolved, CallbackFrame("trigger", i))
                    ELSE resolved
    /\ shown' = shown \ {m}
    /\ OnlySelection
    /\ UNCHANGED popupDone

\* The user dismisses the displayed menu m without a selection.  win32:
\* TrackPopupMenu returns 0 and PopUp writes the cancel time.
UserDismiss(m) ==
    /\ CanDispatch
    /\ m \in shown
    /\ stack' = Resolved(m, "dismissed", DismissTriggers)
    /\ shown' = shown \ {m}
    /\ IF backend = "win32"
       THEN Win32PopUpCancelled
       ELSE UNCHANGED <<contextMenuCancelTime, cancelUnread>>
    /\ OnlyLoop /\ UNCHANGED <<popupDone, sbPos, sbLast>>

\* loop->run() returns once loop->quit() was called from the deactivate
\* handler; TrackPopupMenu returns once the menu is resolved.
ModalLoopReturns(f) == f.phase = "resolved"

\* The PopUp call on top of the stack returns to the callback that made it.
PopUpReturn ==
    /\ stack # <<>>
    /\ Top.kind = "PopUp"
    /\ ModalLoopReturns(Top)
    /\ popupDone' = Top
    /\ stack' = Pop
    /\ OnlyLoop
    /\ UNCHANGED <<shown, contextMenuCancelTime, cancelUnread, sbPos, sbLast>>

(***************************************************************************)
(* Window::Redraw and Window::SetScrollbarPosition, called by a callback.  *)
(***************************************************************************)
\* WindowImplGtk::Redraw: Invalidate(), then Gtk::Main::iteration(false),
\* one iteration of the main loop, which dispatches whatever is pending.
GtkRedraw == stack' = Append(stack, RedrawFrame("iteration"))

\* WindowImplWin32::Redraw: Invalidate(), then UpdateWindow(), which sends
\* WM_PAINT to WndProc at once when the window is shown (a hidden window
\* has nothing to update); WndProc invokes onRender when it is set.
Win32Redraw ==
    stack' = IF windowVisible /\ hasRender
             THEN Append(Append(stack, RedrawFrame("update")), CallbackFrame("paint", "-"))
             ELSE Append(stack, RedrawFrame("update"))

CallRedraw ==
    /\ InCallback
    /\ Len(stack) + 2 <= MaxDepth
    /\ IF backend = "gtk" THEN GtkRedraw ELSE Win32Redraw
    /\ OnlyLoop
    /\ UNCHANGED <<shown, popupDone, contextMenuCancelTime, cancelUnread, sbPos, sbLast>>

RedrawReturn ==
    /\ stack # <<>>
    /\ Top.kind = "Redraw"
    /\ stack' = Pop
    /\ OnlyLoop
    /\ UNCHANGED <<shown, popupDone, contextMenuCancelTime, cancelUnread, sbPos, sbLast>>

LoopInit ==
    /\ stack = <<>>
    /\ shown = {}
    /\ popupDone = NoPopUp

(***************************************************************************)
(* The menu tree: who owns whom.                                           *)
(*                                                                         *)
(* Menus and items are held by std::shared_ptr.  A menu holds one          *)
(* reference to each of its menuItems and subMenus; the caller holds the   *)
(* MenuRef / MenuItemRef values it was returned and has not dropped; a     *)
(* MenuItemImplWin32 holds one to its menu (menuItem->menu =               *)
(* weakThis.lock()).  An object is destroyed when its last reference is    *)
(* dropped, which drops the references it holds.                           *)
(***************************************************************************)
ObjIds == 1..MaxObjs

\* menuLast after an operation other than Clear.
NoMenuOp == [op |-> "other", menu |-> 0, owned |-> {}]

\* The objects constructed so far; the next one gets the next id.
Allocated == {o \in ObjIds : objKind[o] # "none"}

NextId == Cardinality(Allocated) + 1

Range(q) == {q[k] : k \in 1..Len(q)}

\* use_count() of object o is not zero, given the live objects, the caller's
\* handles and the reference-holding members mi (menuItems), sm (subMenus),
\* im (menu).
Referenced(o, live, h, mi, sm, im) ==
    \/ o \in h
    \/ \E m \in live : \E k \in 1..Len(mi[m]) : mi[m][k] = o
    \/ \E m \in live : \E k \in 1..Len(sm[m]) : sm[m][k] = o
    \/ \E i \in live : im[i] = o

\* The objects left alive once every object whose use_count() dropped to
\* zero is destroyed, together with the references it held.
RECURSIVE Sweep(_, _, _, _, _)
Sweep(live, h, mi, sm, im) ==
    LET dead == {o \in live : ~Referenced(o, live, h, mi, sm, im)}
    IN  IF dead = {} THEN live ELSE Sweep(live \ dead, h, mi, sm, im)

\* The state after references were dropped: the survivors keep their
\* members, a destroyed object has none.
Released(h, mi, sm, en, im) ==
    /\ objAlive' = Sweep(objAlive, h, mi, sm, im)
    /\ handles' = h
    /\ menuItems' = [o \in ObjIds |-> IF o \in objAlive' THEN mi[o] ELSE <<>>]
    /\ subMenus' = [o \in ObjIds |-> IF o \in objAlive' THEN sm[o] ELSE <<>>]
    /\ entries' = [o \in ObjIds |-> IF o \in objAlive' THEN en[o] ELSE <<>>]
    /\ itemMenu' = [o \in ObjIds |-> IF o \in objAlive' THEN im[o] ELSE 0]

\* What a menu owns, directly and through its submenus.
RECURSIVE Owned(_)
Owned(m) ==
    LET RECURSIVE Under(_)
        Under(q) == IF q = <<>> THEN {} ELSE Owned(Head(q)) \cup Under(Tail(q))
    IN  Range(menuItems[m]) \cup Range(subMenus[m]) \cup Under(subMenus[m])

\* The objects one step along a reference from o.
Referents(o) ==
    Range(menuItems[o]) \cup Range(subMenus[o]) \cup ({itemMenu[o]} \ {0})

\* The objects the caller can still get at: its handles and everything
\* referenced from them.
RECURSIVE ReachableFrom(_)
ReachableFrom(S) ==
    LET more == S \cup UNION {Referents(o) : o \in S}
    IN  IF more = S THEN S ELSE ReachableFrom(more)

\* MenuItemImplWin32::menu of an item added to menu m: menuItem->menu =
\* weakThis.lock(), a shared_ptr to the menu.  MenuItemImplGtk has no such
\* member.
Win32ItemMenu(m) == m

ItemMenuOf(m) == IF backend = "win32" THEN Win32ItemMenu(m) ELSE 0

\* CreateMenu: a menu, returned to the caller.
CreateMenu ==
    /\ NextId <= MaxObjs
    /\ objKind' = [objKind EXCEPT ![NextId] = "menu"]
    /\ objAlive' = objAlive \cup {NextId}
    /\ handles' = handles \cup {NextId}
    /\ menuLast' = NoMenuOp
    /\ OnlyMenus /\ UNCHANGED <<menuItems, subMenus, entries, itemMenu>>

\* Menu::AddItem on a menu the caller holds; the caller keeps the returned
\* MenuItemRef or drops it.
AddItem(m, keep) ==
    /\ m \in handles /\ objKind[m] = "menu"
    /\ NextId <= MaxObjs
    /\ LET i == NextId
       IN  /\ objKind' = [objKind EXCEPT ![i] = "item"]
           /\ objAlive' = objAlive \cup {i}
           /\ menuItems' = [menuItems EXCEPT ![m] = Append(@, i)]
           /\ entries' = [entries EXCEPT ![m] = Append(@, <<"item", i>>)]
           /\ itemMenu' = [itemMenu EXCEPT ![i] = ItemMenuOf(m)]
           /\ handles' = IF keep THEN handles \cup {i} ELSE handles
           /\ menuLast' = NoMenuOp
    /\ OnlyMenus /\ UNCHANGED subMenus

\* MenuImplGtk::AddSubMenu: a menu item for the entry, kept in menuItems, and
\* the submenu, kept in subMenus and returned.
GtkAddSubMenu(m, keep) ==
    /\ NextId + 1 <= MaxObjs
    /\ LET i == NextId
           sub == NextId + 1
       IN  /\ objKind' = [objKind EXCEPT ![i] = "item", ![sub] = "menu"]
           /\ objAlive' = objAlive \cup {i, sub}
           /\ menuItems' = [menuItems EXCEPT ![m] = Append(@, i)]
           /\ subMenus' = [subMenus EXCEPT ![m] = Append(@, sub)]
           /\ entries' = [entries EXCEPT ![m] = Append(@, <<"submenu", sub>>)]
           /\ handles' = IF keep THEN handles \cup {sub} ELSE handles
           /\ UNCHANGED itemMenu

\* MenuImplWin32::AddSubMenu: the submenu, kept in subMenus and returned.
Win32AddSubMenu(m, keep) ==
    /\ NextId <= MaxObjs
    /\ LET sub == NextId
       IN  /\ objKind' = [objKind EXCEPT ![sub] = "menu"]
           /\ objAlive' = objAlive \cup {sub}
           /\ subMenus' = [subMenus EXCEPT ![m] = Append(@, sub)]
           /\ entries' = [entries EXCEPT ![m] = Append(@, <<"submenu", sub>>)]
           /\ handles' = IF keep THEN handles \cup {sub} ELSE handles
           /\ UNCHANGED <<menuItems, itemMenu>>

AddSubMenu(m, keep) ==
    /\ m \in handles /\ objKind[m] = "menu"
    /\ IF backend = "gtk" THEN GtkAddSubMenu(m, keep) ELSE Win32AddSubMenu(m, keep)
    /\ menuLast' = NoMenuOp
    /\ OnlyMenus

\* The separators in all the menus.
RECURSIVE CountSeparators(_)
CountSeparators(S) ==
    IF S = {} THEN 0
    ELSE LET o == CHOOSE x \in S : TRUE
         IN  Cardinality({k \in 1..Len(entries[o]) : entries[o][k][1] = "separator"})
                 + CountSeparators(S \ {o})

NumSeparators == CountSeparators(objAlive)

\* Menu::AddSeparator: a native entry only.
AddSeparator(m) ==
    /\ m \in handles /\ objKind[m] = "menu"
    /\ NumSeparators < MaxSeparators
    /\ entries' = [entries EXCEPT ![m] = Append(@, <<"separator", 0>>)]
    /\ menuLast' = NoMenuOp
    /\ OnlyMenus /\ UNCHANGED <<objKind, objAlive, menuItems, subMenus, itemMenu, handles>>

\* Menu::Clear: every native entry is removed (gtkMenu.remove, RemoveMenu),
\* then menuItems.clear() and subMenus.clear().
Clear(m) ==
    /\ m \in handles /\ objKind[m] = "menu"
    /\ menuLast' = [op |-> "Clear", menu |-> m, owned |-> Owned(m)]
    /\ Released(handles,
                [menuItems EXCEPT ![m] = <<>>],
                [subMenus EXCEPT ![m] = <<>>],
                [entries EXCEPT ![m] = <<>>],
                itemMenu)
    /\ OnlyMenus /\ UNCHANGED objKind

\* The caller drops a MenuRef or MenuItemRef it holds.
DropHandle(o) ==
    /\ o \in handles
    /\ menuLast' = NoMenuOp
    /\ Released(handles \ {o}, menuItems, subMenus, entries, itemMenu)
    /\ OnlyMenus /\ UNCHANGED objKind

MenuInit ==
    /\ objKind = [o \in ObjIds |-> "none"]
    /\ objAlive = {}
    /\ menuItems = [o \in ObjIds |-> <<>>]
    /\ subMenus = [o \in ObjIds |-> <<>>]
    /\ entries = [o \in ObjIds |-> <<>>]
    /\ itemMenu = [o \in ObjIds |-> 0]
    /\ handles = {}
    /\ menuLast = NoMenuOp

(***************************************************************************)
(* The state of a menu item: indicator, active, enabled.                   *)
(***************************************************************************)
Indicators == {"NONE", "CHECK_MARK", "RADIO_MARK"}

NoItemOp == [op |-> "none", item |-> "-", was |-> "NONE", before |-> FALSE]

ItemOp(name, i) ==
    [op |-> name, item |-> i, was |-> indicator[i], before |-> active[i]]

\* MenuItemImplGtk::SetIndicator
GtkSetIndicator(i, type) ==
    /\ hasIndicator' = [hasIndicator EXCEPT ![i] = type # "NONE"]
    /\ drawAsRadio' = [drawAsRadio EXCEPT
                          ![i] = IF type = "NONE" THEN @ ELSE type = "RADIO_MARK"]

\* MenuItemImplWin32::SetIndicator: NONE and CHECK_MARK clear MFT_RADIOCHECK,
\* RADIO_MARK sets it.
Win32SetIndicator(i, type) ==
    /\ drawAsRadio' = [drawAsRadio EXCEPT ![i] = type = "RADIO_MARK"]
    /\ UNCHANGED hasIndicator

SetIndicator(i, type) ==
    /\ ~aborted
    /\ IF backend = "gtk" THEN GtkSetIndicator(i, type) ELSE Win32SetIndicator(i, type)
    /\ indicator' = [indicator EXCEPT ![i] = type]
    /\ itemLast' = ItemOp("SetIndicator", i)
    /\ OnlyItems /\ UNCHANGED <<active, enabled, triggered, aborted>>

\* GtkMenuItem::set_active: nothing when the state is the same, else
\* CheckMenuItem::set_active between _synthetic_event = true and = false; it
\* emits activate, and on_activate toggles the state and, the event being
\* synthetic, leaves onTrigger alone.
GtkSetActiveItem(i, b) ==
    IF active[i] = b
    THEN UNCHANGED <<active, triggered>>
    ELSE /\ active' = [active EXCEPT ![i] = ~@]
         /\ triggered' = [triggered EXCEPT ![i] = @ + GtkOnActivate(TRUE, i)]

\* MenuItemImplGtk::SetActive: ssassert(gtkMenuItem.has_indicator(), ...).
GtkSetActive(i, b) ==
    IF hasIndicator[i]
    THEN GtkSetActiveItem(i, b) /\ UNCHANGED aborted
    ELSE aborted' = TRUE /\ UNCHANGED <<active, triggered>>

\* MenuItemImplWin32::SetActive: sets or clears MFS_CHECKED.
Win32SetActive(i, b) ==
    /\ active' = [active EXCEPT ![i] = b]
    /\ UNCHANGED <<triggered, aborted>>

SetActive(i, b) ==
    /\ ~aborted
    /\ IF backend = "gtk" THEN GtkSetActive(i, b) ELSE Win32SetActive(i, b)
    /\ itemLast' = ItemOp("SetActive", i)
    /\ OnlyItems /\ UNCHANGED <<hasIndicator, drawAsRadio, enabled, indicator>>

\* MenuItem::SetEnabled: set_sensitive (gtk), MFS_DISABLED|MFS_GRAYED (win32).
SetEnabled(i, b) ==
    /\ ~aborted
    /\ enabled[i] # b
    /\ enabled' = [enabled EXCEPT ![i] = b]
    /\ itemLast' = ItemOp("SetEnabled", i)
    /\ OnlyItems /\ UNCHANGED <<hasIndicator, drawAsRadio, active, indicator, triggered, aborted>>

\* The user activates an enabled item.  gtk: GtkMenuItem::on_activate, whose
\* base class toggles the check state, then onTrigger.  win32: WM_MENUCOMMAND
\* or PopUp, onTrigger only, read through the cast of the item's id.
UserActivate(i, deref) ==
    /\ ~aborted
    /\ enabled[i]
    /\ triggered[i] < MaxTriggers
    /\ backend = "gtk" => deref = "item"
    /\ ItemActivated(i, deref)
    /\ OnlyItems /\ UNCHANGED <<hasIndicator, drawAsRadio, enabled, indicator>>

\* AddItem: no indicator, not checked, enabled.
ItemInit ==
    /\ hasIndicator = [i \in Items |-> FALSE]
    /\ drawAsRadio = [i \in Items |-> FALSE]
    /\ active = [i \in Items |-> FALSE]
    /\ enabled = [i \in Items |-> TRUE]
    /\ indicator = [i \in Items |-> "NONE"]
    /\ triggered = [i \in Items |-> 0]
    /\ itemLast = NoItemOp
    /\ aborted = FALSE

(***************************************************************************)
(* The editor overlay of a window.                                         *)
(*                                                                         *)
(* Texts are sequences of characters.  ShowEditor takes its coordinates,   *)
(* the font height and the minimum width as doubles (see Resolution); the  *)
(* adapters cut them down to int and LONG.  What the windowing system      *)
(* reports (font metrics, glyph advances, style borders) is a fixed        *)
(* function of the font, the same on every call.  The fonts are a          *)
(* proportional one, whose glyphs differ in width, and a monospaced one.   *)
(***************************************************************************)
Chars == {"a", "b"}

SeedTexts == {<<>>, <<"a">>, <<"a", "b">>}

\* The double 0.5.
Half == Resolution \div 2

Coords == {Whole(10), Whole(20) + Half}

Baselines == {Whole(10)}

FontHeights == {Whole(8)}

MinWidths == {Whole(0), Whole(40), Whole(40) + Half}

\* (int)d of the call of start_editing, (LONG)d: the fraction is cut off,
\* toward zero.
ToInt(d) == IF d >= 0 THEN d \div Resolution ELSE -((-d) \div Resolution)

Max(a, b) == IF a >= b THEN a ELSE b

\* font_metrics.get_ascent() / Pango::SCALE, tm.tmAscent
FontAscent(fontHeight) == (3 * fontHeight) \div 4

\* tm.tmDescent
FontDescent(fontHeight) == fontHeight - FontAscent(fontHeight)

\* Pango::SCALE: how many Pango units make one pixel.
PangoScale == 1024

\* The advance of the glyph of character c in a font of the given absolute
\* size, in Pango units: every glyph of the monospaced font is 3/5 of the
\* size wide; in the proportional font the space is 1/4 of the size wide,
\* "a" 9/16 and "b" 3/4.
GlyphAdvance(c, fontHeight, isMonospace) ==
    IF isMonospace THEN (3 * fontHeight * PangoScale) \div 5
    ELSE CASE c = " " -> (fontHeight * PangoScale) \div 4
           [] c = "a" -> (9 * fontHeight * PangoScale) \div 16
           [] OTHER   -> (3 * fontHeight * PangoScale) \div 4

\* layout->get_logical_extents().get_width(): the advances of the glyphs of
\* the text, in Pango units.
RECURSIVE LayoutWidth(_, _, _)
LayoutWidth(text, fontHeight, isMonospace) ==
    IF text = <<>> THEN 0
    ELSE GlyphAdvance(Head(text), fontHeight, isMonospace)
             + LayoutWidth(Tail(text), fontHeight, isMonospace)

\* The width of the glyph of character c in the GDI font: its advance in
\* whole pixels.
GlyphWidth(c, fontHeight, isMonospace) ==
    (GlyphAdvance(c, fontHeight, isMonospace) + PangoScale \div 2) \div PangoScale

\* GetTextExtentPoint32W(hDc, text, length, &ts): ts.cx, the widths of the
\* glyphs of the text, in pixels.
RECURSIVE GetTextExtentPoint32W(_, _, _)
GetTextExtentPoint32W(text, fontHeight, isMonospace) ==
    IF text = <<>> THEN 0
    ELSE GlyphWidth(Head(text), fontHeight, isMonospace)
             + GetTextExtentPoint32W(Tail(text), fontHeight, isMonospace)

\* tm.tmAveCharWidth: the average width of the characters of the font, in
\* pixels; half the height in the proportional font.
TmAveCharWidth(fontHeight, isMonospace) ==
    IF isMonospace THEN GlyphWidth("a", fontHeight, isMonospace)
    ELSE fontHeight \div 2

\* get_style_context()->get_margin(), get_border(), get_padding(): the same
\* on every side.
GtkMargin == 0

GtkBorder == 1

GtkPadding == 2

\* What AdjustWindowRectEx adds on every side for WS_EX_CLIENTEDGE.
ClientEdge == 2

\* _entry.is_visible(), IsWindowVisible(hEditor): the overlay and the window
\* that contains it are marked visible.
IsEditorVisible == edShown /\ windowVisible

\* The record of an operation: the state before it, its argument (the seed
\* text and minimum width, the key event), the texts it passed to onEditingDone and the key events it
\* passed to the keyboard callback.
EditorOpWith(name, arg, done, keyed) ==
    [op |-> name, visible |-> IsEditorVisible, rect |-> edRect, text |-> edText,
     arg |-> arg, done |-> done, keyed |-> keyed]

EditorOp(name) == EditorOpWith(name, <<>>, <<>>, <<>>)

\* The selection from character from to character to.
Selection(from, to) == [from |-> from, to |-> to]

\* _entry.set_text(val): nothing when the entry holds that text already;
\* else the text is replaced and the caret is at its start.
GtkEntrySetText(text) == IF text = edText THEN edSel ELSE Selection(0, 0)

\* _entry.grab_focus(), after set_text: the entry selects its text.
GtkEntryGrabFocus(text) == Selection(0, Len(text))

\* GtkEditorOverlay::start_editing: font, move, set_size_request and set_text
\* on every call; show, grab_focus and add_modal_grab when not visible.
GtkStartEditing(x, y, fontHeight, minWidth, isMonospace, text) ==
    LET top == y - FontAscent(fontHeight)
        width == LayoutWidth(Append(text, " "), fontHeight, isMonospace)
        fitWidth == width \div PangoScale + GtkPadding + GtkPadding
    IN  /\ edFont' = [height |-> fontHeight, mono |-> isMonospace]
        /\ edRect' = [x |-> x - GtkMargin - GtkBorder - GtkPadding,
                      y |-> top - GtkMargin - GtkBorder - GtkPadding,
                      w |-> Max(fitWidth, minWidth),
                      h |-> -1]
        /\ edText' = text
        /\ IF ~IsEditorVisible
           THEN /\ edShown' = TRUE /\ edFocus' = "editor" /\ edGrab' = TRUE
                /\ edSel' = GtkEntryGrabFocus(text)
           ELSE /\ UNCHANGED <<edShown, edFocus, edGrab>>
                /\ edSel' = GtkEntrySetText(text)

\* WindowImplWin32::ShowEditor: nothing when the editor is visible; else
\* WM_SETFONT of the font of height (LONG)fontHeight, MoveWindow, ShowWindow,
\* and WM_SETTEXT, EM_SETSEL of the whole text and SetFocus when the text is
\* not empty.
Win32ShowEditor(x, y, fontHeight, minWidth, isMonospace, text) ==
    IF IsEditorVisible
    THEN UNCHANGED <<edFont, edRect, edText, edSel, edShown, edFocus, edGrab>>
    ELSE LET height == ToInt(fontHeight)
             cx == GetTextExtentPoint32W(text, height, isMonospace)
             left == ToInt(x) - ClientEdge
             top == (ToInt(y) - FontAscent(height)) - ClientEdge
             right == (ToInt(x) + Max(ToInt(minWidth),
                                      cx + TmAveCharWidth(height, isMonospace)))
                          + ClientEdge
             bottom == (ToInt(y) + FontDescent(height)) + ClientEdge
         IN  /\ edFont' = [height |-> height, mono |-> isMonospace]
             /\ edRect' = [x |-> left, y |-> top, w |-> right - left, h |-> bottom - top]
             /\ edShown' = TRUE
             /\ edText' = IF text # <<>> THEN text ELSE edText
             /\ edSel' = IF text # <<>> THEN Selection(0, Len(text)) ELSE edSel
             /\ edFocus' = IF text # <<>> THEN "editor" ELSE edFocus
             /\ UNCHANGED edGrab

\* Window::ShowEditor.  WindowImplGtk::ShowEditor hands its doubles to the
\* int parameters of start_editing.
ShowEditor(x, y, fontHeight, minWidth, isMonospace, text) ==
    /\ IF backend = "gtk"
       THEN GtkStartEditing(ToInt(x), ToInt(y), ToInt(fontHeight), ToInt(minWidth),
                            isMonospace, text)
       ELSE Win32ShowEditor(x, y, fontHeight, minWidth, isMonospace, text)
    /\ edLast' = EditorOpWith("ShowEditor", [text |-> text, minWidth |-> minWidth],
                               <<>>, <<>>)
    /\ OnlyEditor /\ UNCHANGED <<windowVisible, hasEditingDone, hasKeyboardEvent>>

\* GtkEditorOverlay::stop_editing: remove_modal_grab and hide, when visible;
\* the hidden entry gives up the focus.
GtkStopEditing ==
    IF IsEditorVisible
    THEN edShown' = FALSE /\ edGrab' = FALSE /\ edFocus' = "none"
    ELSE UNCHANGED <<edShown, edGrab, edFocus>>

\* WindowImplWin32::HideEditor: ShowWindow(SW_HIDE), when visible; the focus
\* of a hidden child goes to its parent.
Win32HideEditor ==
    IF IsEditorVisible
    THEN /\ edShown' = FALSE
         /\ edFocus' = IF edFocus = "editor" THEN "window" ELSE edFocus
         /\ UNCHANGED edGrab
    ELSE UNCHANGED <<edShown, edGrab, edFocus>>

HideEditor ==
    /\ IF backend = "gtk" THEN GtkStopEditing ELSE Win32HideEditor
    /\ edLast' = EditorOp("HideEditor")
    /\ OnlyEditor
    /\ UNCHANGED <<windowVisible, edRect, edText, edSel, edFont, hasEditingDone, hasKeyboardEvent>>

\* Window::SetVisible: gtkWindow.show() / hide(), ShowWindow(hWindow, ...).
\* A window that is shown is activated: the focus is the window's (gtk: the
\* focus widget it had, else the rendering surface); a hidden win32 window
\* has no focus.
WindowShownAs(visible) ==
    /\ windowVisible' = visible
    /\ edFocus' = IF visible
                  THEN (IF backend = "gtk" /\ edFocus # "none" THEN edFocus ELSE "window")
                  ELSE (IF backend = "gtk" THEN edFocus ELSE "none")

\* Window::SetVisible.
SetVisible(visible) ==
    /\ windowVisible # visible
    /\ WindowShownAs(visible)
    /\ edLast' = EditorOp("SetVisible")
    /\ OnlyEditor
    /\ UNCHANGED <<edShown, edRect, edText, edSel, edFont, edGrab, hasEditingDone, hasKeyboardEvent>>

\* The application sets or clears Window::onEditingDone.
SetOnEditingDone(b) ==
    /\ hasEditingDone # b
    /\ hasEditingDone' = b
    /\ edLast' = EditorOp("SetOnEditingDone")
    /\ OnlyEditor
    /\ UNCHANGED <<windowVisible, edShown, edRect, edText, edSel, edFont, edGrab, edFocus,
                   hasKeyboardEvent>>

\* The application sets or clears Window::onKeyboardEvent.
SetOnKeyboardEvent(b) ==
    /\ hasKeyboardEvent # b
    /\ hasKeyboardEvent' = b
    /\ edLast' = EditorOp("SetOnKeyboardEvent")
    /\ OnlyEditor
    /\ UNCHANGED <<windowVisible, edShown, edRect, edText, edSel, edFont, edGrab, edFocus,
                   hasEditingDone>>

(***************************************************************************)
(* Key events.  A key event is what the user does on the keyboard while    *)
(* the window is shown; it goes to whatever has the focus.  The callbacks  *)
(* are the application's: the model records that they were invoked.        *)
(***************************************************************************)
Keys == {"Escape", "Enter"} \cup Chars

KeyTypes == {"PRESS", "RELEASE"}

\* The events a key event hands to the keyboard callback of the rendering
\* surface.  gtk: GtkGLWidget::process_key_event calls the handler whenever
\* the surface has the focus.  win32: WndProc WM_KEYDOWN / WM_KEYUP call
\* onKeyboardEvent when it is set.
GtkProcessKeyEvent(type, k) ==
    IF edFocus = "window" THEN <<<<type, k>>>> ELSE <<>>

Win32WndProcKey(type, k) ==
    IF hasKeyboardEvent THEN <<<<type, k>>>> ELSE <<>>

\* on_activate, EditorWndProc VK_RETURN: onEditingDone(text), when it is set.
EditingDone == IF hasEditingDone THEN <<edText>> ELSE <<>>

\* The entry / EDIT control takes a character: it replaces the selection,
\* and the caret is behind it.
EntryInsert(c) ==
    /\ Len(edText) - (edSel.to - edSel.from) < MaxText
    /\ edText' = SubSeq(edText, 1, edSel.from) \o <<c>>
                     \o SubSeq(edText, edSel.to + 1, Len(edText))
    /\ edSel' = Selection(edSel.from + 1, edSel.from + 1)

\* GtkEditorOverlay::on_key_press_event, on_key_release_event and, below
\* them, GtkGLWidget::on_key_press_event, on_key_release_event.
GtkKeyEvent(type, k) ==
    IF IsEditorVisible
    THEN IF type = "PRESS" /\ k = "Escape"
         THEN /\ GtkStopEditing
              /\ UNCHANGED <<edText, edSel>>
              /\ edLast' = EditorOpWith("Key", <<type, k>>, <<>>, <<>>)
         ELSE IF type = "PRESS" /\ k = "Enter"
         THEN /\ UNCHANGED <<edShown, edGrab, edFocus, edText, edSel>>
              /\ edLast' = EditorOpWith("Key", <<type, k>>, EditingDone, <<>>)
         ELSE IF type = "PRESS"
         THEN /\ EntryInsert(k)
              /\ UNCHANGED <<edShown, edGrab, edFocus>>
              /\ edLast' = EditorOpWith("Key", <<type, k>>, <<>>, <<>>)
         ELSE /\ UNCHANGED <<edShown, edGrab, edFocus, edText, edSel>>
              /\ edLast' = EditorOpWith("Key", <<type, k>>, <<>>, <<>>)
    ELSE /\ UNCHANGED <<edShown, edGrab, edFocus, edText, edSel>>
         /\ edLast' = EditorOpWith("Key", <<type, k>>, <<>>, GtkProcessKeyEvent(type, k))

\* WindowImplWin32::EditorWndProc when the EDIT control has the focus, else
\* WindowImplWin32::WndProc.  EditorWndProc sends an Escape press on to
\* WndProc, answers an Enter press with onEditingDone when that is set, and
\* leaves everything else to the EDIT control.
Win32KeyEvent(type, k) ==
    /\ edFocus # "none"
    /\ UNCHANGED <<edShown, edGrab, edFocus>>
    /\ IF edFocus = "editor"
       THEN IF type = "PRESS" /\ k = "Escape"
            THEN /\ UNCHANGED <<edText, edSel>>
                 /\ edLast' = EditorOpWith("Key", <<type, k>>, <<>>, Win32WndProcKey(type, k))
            ELSE IF type = "PRESS" /\ k = "Enter"
            THEN /\ UNCHANGED <<edText, edSel>>
                 /\ edLast' = EditorOpWith("Key", <<type, k>>, EditingDone, <<>>)
            ELSE IF type = "PRESS" /\ k \in Chars
            THEN /\ EntryInsert(k)
                 /\ edLast' = EditorOpWith("Key", <<type, k>>, <<>>, <<>>)
            ELSE /\ UNCHANGED <<edText, edSel>>
                 /\ edLast' = EditorOpWith("Key", <<type, k>>, <<>>, <<>>)
       ELSE /\ UNCHANGED <<edText, edSel>>
            /\ edLast' = EditorOpWith("Key", <<type, k>>, <<>>, Win32WndProcKey(type, k))

KeyEvent(type, k) ==
    /\ windowVisible
    /\ IF backend = "gtk" THEN GtkKeyEvent(type, k) ELSE Win32KeyEvent(type, k)
    /\ OnlyEditor
    /\ UNCHANGED <<windowVisible, edRect, edFont, hasEditingDone, hasKeyboardEvent>>

\* The user types a character.
TypeChar(c) == KeyEvent("PRESS", c)

\* The user presses Escape.
PressEscape == KeyEvent("PRESS", "Escape")

\* The user presses Enter.
PressEnter == KeyEvent("PRESS", "Enter")

\* The user releases a key.
ReleaseKey(k) == KeyEvent("RELEASE", k)

\* A window as CreateWindow leaves it: not shown, the overlay hidden and
\* empty.
EditorInit ==
    /\ windowVisible = FALSE
    /\ edShown = FALSE
    /\ edRect = [x |-> 0, y |-> 0, w |-> 0, h |-> 0]
    /\ edText = <<>>
    /\ edSel = Selection(0, 0)
    /\ edFont = [height |-> 0, mono |-> FALSE]
    /\ edGrab = FALSE
    /\ edLast = [op |-> "none", visible |-> FALSE,
                 rect |-> [x |-> 0, y |-> 0, w |-> 0, h |-> 0], text |-> <<>>,
                 arg |-> <<>>, done |-> <<>>, keyed |-> <<>>]
    /\ edFocus = "none"
    /\ hasEditingDone = FALSE
    /\ hasKeyboardEvent = FALSE

(***************************************************************************)
(* The placement of a window: FreezePosition and ThawPosition.             *)
(*                                                                         *)
(* Rectangles are [left, top, right, bottom], right and bottom excluded,   *)
(* as RECT is.  The configuration store is a function from the names of    *)
(* the settings stored to integers (CnfFreezeInt, CnfThawInt).             *)
(***************************************************************************)
\* The width and height of a monitor.
MonitorWidth == 4

MonitorHeight == 3

Rect(l, t, r, b) == [left |-> l, top |-> t, right |-> r, bottom |-> b]

PrimaryMonitor == Rect(0, 0, MonitorWidth, MonitorHeight)

SecondMonitor == Rect(MonitorWidth, 0, 2 * MonitorWidth, MonitorHeight)

\* The monitor configurations: one monitor, or a second one to its right.
MonitorConfigs == {{PrimaryMonitor}, {PrimaryMonitor, SecondMonitor}}

\* Where the user may put the window: on the primary monitor, or on the
\* second one.
UserRects ==
    {Rect(l, t, l + 2, t + 2) : l \in {0, 1, MonitorWidth + 1}, t \in {0, 1}}

\* The places along the top edge of a monitor.
TopRects == {rc \in UserRects : rc.top = 0}

PosKeys == {"w"}

Min(a, b) == IF a <= b THEN a ELSE b

\* static int Clamp(int x, int a, int b)
Clamp(x, a, b) == Max(a, Min(x, b))

\* CnfThawInt(v, name): the value stored under name, v when there is none.
CnfThawInt(v, name) == IF name \in DOMAIN cnf THEN cnf[name] ELSE v

\* The store after CnfFreezeInt of each value of the record vals under the
\* name key + "_" + field.
CnfFrozen(key, vals) ==
    LET names == {<<key, f>> : f \in DOMAIN vals}
    IN  [n \in DOMAIN cnf \cup names |-> IF n \in names THEN vals[n[2]] ELSE cnf[n]]

BoolInt(b) == IF b THEN 1 ELSE 0

\* How much of rectangle rc is on monitor m.
Overlap(rc, m) ==
    Max(0, Min(rc.right, m.right) - Max(rc.left, m.left))
        * Max(0, Min(rc.bottom, m.bottom) - Max(rc.top, m.top))

\* How far rectangle rc is from monitor m.
Distance(rc, m) ==
    Max(0, Max(m.left - rc.right, rc.left - m.right))
        + Max(0, Max(m.top - rc.bottom, rc.top - m.bottom))

\* MonitorFromRect(&rc, MONITOR_DEFAULTTONEAREST): the monitor with the most
\* of rc on it, the nearest one when rc is on none.
NearestMonitor(rc) ==
    IF \E m \in monitors : Overlap(rc, m) > 0
    THEN CHOOSE m \in monitors : \A o \in monitors : Overlap(rc, m) >= Overlap(rc, o)
    ELSE CHOOSE m \in monitors : \A o \in monitors : Distance(rc, m) <= Distance(rc, o)

\* rc lies within the bounds of m.
Within(rc, m) ==
    /\ m.left <= rc.left /\ rc.left <= rc.right /\ rc.right <= m.right
    /\ m.top <= rc.top /\ rc.top <= rc.bottom /\ rc.bottom <= m.bottom

\* gtkWindow.get_position, get_size: the window as it is on screen, which for
\* a maximized window is its monitor.
GtkGeometry == IF winMaximized THEN NearestMonitor(winRect) ELSE winRect

\* The rectangle the window occupies on screen: its monitor when it is
\* maximized, its normal rectangle otherwise.
OnScreen == GtkGeometry

\* The window is visible and its rectangle lies within a monitor.
VisibleWithinMonitor ==
    windowVisible /\ \E m \in monitors : Within(winRect, m)

\* Nothing is recorded of a FreezePosition.
NotFrozen == <<>>

\* The record of an operation: the state before it and what it read from or
\* wrote to the store.  frozen is carried from operation to operation: under
\* each key, the window as the last FreezePosition stored it.
PlacementOp(name, key, stored) ==
    [op |-> name, key |-> key, visible |-> windowVisible, cnf |-> cnf,
     rect |-> winRect, maximized |-> winMaximized, stored |-> stored,
     frozen |-> posLast.frozen]

\* The record of a FreezePosition.  When it stored the window as it is
\* (taken) and the window is visible and within its monitor, frozen holds
\* the window's rectangle on screen and its maximized flag; a call that
\* changed the store without that leaves nothing in frozen, and a call that
\* left the store alone leaves frozen alone.
FreezeOp(key, stored, taken) ==
    [PlacementOp("FreezePosition", key, stored) EXCEPT
        !.frozen[key] = IF taken /\ VisibleWithinMonitor
                        THEN <<[rect |-> OnScreen, maximized |-> winMaximized]>>
                        ELSE IF cnf' = cnf THEN @ ELSE NotFrozen]

\* WindowImplGtk::FreezePosition past its test of is_visible(): position,
\* size and is_maximized() are stored.
GtkFreezeVisible(key) ==
    cnf' = CnfFrozen(key, [left |-> GtkGeometry.left,
                           top |-> GtkGeometry.top,
                           width |-> GtkGeometry.right - GtkGeometry.left,
                           height |-> GtkGeometry.bottom - GtkGeometry.top,
                           maximized |-> BoolInt(winMaximized)])

\* WindowImplGtk::FreezePosition: nothing for a window that is not visible.
GtkFreezePosition(key) ==
    /\ IF ~windowVisible
       THEN UNCHANGED cnf
       ELSE GtkFreezeVisible(key)
    /\ UNCHANGED <<placement, showCmd>>

\* WindowImplWin32::FreezePosition, its native calls succeeding:
\* GetWindowPlacement fills in the placement member, whose rcNormalPosition
\* is stored with IsZoomed.
Win32FreezePosition(key) ==
    LET rc == GetWindowPlacement(Succeeded) IN
    /\ placement' = rc
    /\ showCmd' = GetWindowPlacementShowCmd(Succeeded)
    /\ cnf' = CnfFrozen(key, [left |-> rc.left,
                              right |-> rc.right,
                              top |-> rc.top,
                              bottom |-> rc.bottom,
                              maximized |-> BoolInt(winMaximized)])

\* Window::FreezePosition.  What the record holds as stored is the
\* rectangle the call wrote: gtk the geometry of the visible window on
\* screen (get_position, get_size), win32 rcNormalPosition.
FreezePosition(key) ==
    /\ IF backend = "gtk" THEN GtkFreezePosition(key) ELSE Win32FreezePosition(key)
    /\ posLast' = FreezeOp(key,
                           IF backend = "gtk" /\ windowVisible THEN GtkGeometry ELSE winRect,
                           backend = "gtk" => windowVisible)
    /\ OnlyPlacement
    /\ UNCHANGED <<windowVisible, edFocus, winRect, winMaximized, monitors>>

\* WindowImplGtk::ThawPosition: move and resize to what is stored, the
\* present geometry where nothing is; maximize() when that is stored.
GtkThawPosition(key) ==
    LET left == CnfThawInt(GtkGeometry.left, <<key, "left">>)
        top == CnfThawInt(GtkGeometry.top, <<key, "top">>)
        width == CnfThawInt(GtkGeometry.right - GtkGeometry.left, <<key, "width">>)
        height == CnfThawInt(GtkGeometry.bottom - GtkGeometry.top, <<key, "height">>)
    IN  /\ winRect' = Rect(left, top, left + width, top + height)
        /\ winMaximized' = (winMaximized \/ CnfThawInt(0, <<key, "maximized">>) # 0)
        /\ posLast' = PlacementOp("ThawPosition", key, Rect(left, top, left + width, top + height))
        /\ UNCHANGED <<windowVisible, edFocus, placement, showCmd>>

\* WindowImplWin32::ThawPosition, its native calls succeeding:
\* GetWindowPlacement fills in the placement member; what is stored, each
\* edge clamped to the nearest monitor, becomes its rcNormalPosition and
\* SW_SHOWMAXIMIZED or SW_SHOW its showCmd, and SetWindowPlacement places
\* the window by it.
Win32ThawPosition(key) ==
    LET normal == GetWindowPlacement(Succeeded)
        rc == Rect(CnfThawInt(normal.left, <<key, "left">>),
                   CnfThawInt(normal.top, <<key, "top">>),
                   CnfThawInt(normal.right, <<key, "right">>),
                   CnfThawInt(normal.bottom, <<key, "bottom">>))
        mrc == NearestMonitor(rc)
        clamped == Rect(Clamp(rc.left, mrc.left, mrc.right),
                        Clamp(rc.top, mrc.top, mrc.bottom),
                        Clamp(rc.right, mrc.left, mrc.right),
                        Clamp(rc.bottom, mrc.top, mrc.bottom))
    IN  /\ placement' = clamped
        /\ showCmd' = IF CnfThawInt(0, <<key, "maximized">>) # 0
                      THEN "SW_SHOWMAXIMIZED" ELSE "SW_SHOW"
        /\ winRect' = clamped
        /\ winMaximized' = (winMaximized \/ CnfThawInt(0, <<key, "maximized">>) # 0)
        /\ posLast' = PlacementOp("ThawPosition", key, rc)
        /\ IF windowVisible
           THEN UNCHANGED <<windowVisible, edFocus>>
           ELSE WindowShownAs(TRUE)

ThawPosition(key) ==
    /\ IF backend = "gtk" THEN GtkThawPosition(key) ELSE Win32ThawPosition(key)
    /\ OnlyPlacement
    /\ UNCHANGED <<monitors, cnf>>

\* The user moves the visible window, which restores it when maximized.
UserMove(rc) ==
    /\ windowVisible
    /\ \E m \in monitors : Within(rc, m)
    /\ rc # winRect \/ winMaximized
    /\ winRect' = rc
    /\ winMaximized' = FALSE
    /\ posLast' = PlacementOp("UserMove", "-", winRect)
    /\ OnlyPlacement
    /\ UNCHANGED <<windowVisible, edFocus, monitors, cnf, placement, showCmd>>

\* The user maximizes the visible window.
UserMaximize ==
    /\ windowVisible
    /\ ~winMaximized
    /\ winMaximized' = TRUE
    /\ posLast' = PlacementOp("UserMaximize", "-", winRect)
    /\ OnlyPlacement
    /\ UNCHANGED <<windowVisible, edFocus, winRect, monitors, cnf, placement, showCmd>>

\* A monitor is attached or detached; the window stays where it is.
MonitorChange(config) ==
    /\ config # monitors
    /\ monitors' = config
    /\ posLast' = PlacementOp("MonitorChange", "-", winRect)
    /\ OnlyPlacement
    /\ UNCHANGED <<windowVisible, edFocus, winRect, winMaximized, cnf, placement, showCmd>>

\* A window as CreateWindow leaves it, on the primary monitor; nothing is
\* stored.
PlacementInit ==
    /\ winRect = Rect(0, 0, 2, 2)
    /\ winMaximized = FALSE
    /\ monitors = {PrimaryMonitor, SecondMonitor}
    /\ cnf = [n \in {} |-> 0]
    /\ posLast = [op |-> "none", key |-> "-", visible |-> FALSE, cnf |-> [n \in {} |-> 0],
                  rect |-> Rect(0, 0, 2, 2), maximized |-> FALSE,
                  stored |-> Rect(0, 0, 2, 2),
                  frozen |-> [key \in PosKeys |-> NotFrozen]]

(***************************************************************************)
(* The vertical scrollbar of a window.                                     *)
(*                                                                         *)
(* The interface speaks in doubles (see Resolution): the model tells       *)
(* a value the win32 fixed point holds (an even number) from one it        *)
(* truncates (an odd number).  The gtk adjustment keeps the doubles as     *)
(* they are; the win32 SCROLLINFO keeps 32-bit integers that count         *)
(* SCROLLBAR_UNITs.  sbMin, sbMax, sbPage and sbPos hold what the native   *)
(* scrollbar holds, in its own unit.  Only arguments that are not negative *)
(* are drawn: the conversion of a negative double to UINT is undefined.    *)
(***************************************************************************)
\* A 32-bit word, int or UINT, is modelled by the signed integer that has
\* its bits: an UINT of 2^31 or more is a negative number here.  The order
\* of two words read as UINTs, and std::min of them.
UnsignedLess(a, b) == IF (a < 0) = (b < 0) THEN a < b ELSE b < 0

UnsignedMin(a, b) == IF UnsignedLess(b, a) THEN b ELSE a

\* (UINT)(d * SCROLLBAR_UNIT): the fraction is cut off.  Arguments stay
\* below 2^31 / SCROLLBAR_UNIT = 32768.0, so the word is not negative.
ToUnits(d) == d \div OneUnit

\* (double)n / SCROLLBAR_UNIT
FromUnits(n) == n * OneUnit

\* The ranges ConfigureScrollbar is called with: <<min, max, pageSize>>.
ScrollRanges ==
    {<<Whole(0), Whole(10), Whole(0)>>, <<Whole(0), Whole(10), Whole(2)>>,
     <<Whole(2), Whole(6), Whole(0)>>, <<Whole(0), Whole(4), Whole(6)>>}

\* The positions SetScrollbarPosition is called with; Whole(5) + 1 is not a
\* multiple of 1 / SCROLLBAR_UNIT.
ScrollPositions ==
    {Whole(0), Whole(3), Whole(5), Whole(5) + OneUnit, Whole(5) + 1, Whole(9)}

\* What the user does to the scrollbar (the request codes of WM_VSCROLL).
\* SB_ENDSCROLL is what the win32 host sends when a scrollbar action ends.
ScrollRequests ==
    {"SB_LINEUP", "SB_PAGEUP", "SB_LINEDOWN", "SB_PAGEDOWN", "SB_TOP", "SB_BOTTOM",
     "SB_THUMBTRACK", "SB_THUMBPOSITION", "SB_ENDSCROLL"}

\* The requests that carry the place of the thumb.
ThumbRequests == {"SB_THUMBTRACK", "SB_THUMBPOSITION"}

\* Where the user drags the thumb to.
TrackPositions == {Whole(1), Whole(4)}

\* The position of the native scrollbar as a double, whether or not the
\* scrollbar is shown.
Position == IF backend = "gtk" THEN sbPos ELSE FromUnits(sbPos)

\* gtk: adjustment->get_value(); win32: 0.0 unless SetScrollbarVisible(true)
\* was called, else nPos in SCROLLBAR_UNITs.
GetScrollbarPosition ==
    IF backend = "gtk" THEN sbPos
    ELSE IF ~scrollbarVisible THEN 0
    ELSE FromUnits(sbPos)

ScrollbarOp(name, arg, adjusted) ==
    [op |-> name, arg |-> arg, pos |-> Position, adjusted |-> adjusted]

\* Gtk::Adjustment keeps its value between lower and upper - page_size, and
\* not below lower.
AdjustmentValue(value, lower, upper, pageSize) ==
    Max(lower, Min(value, upper - pageSize))

\* on_scrollbar_value_changed, run by the adjustment's value_changed signal
\* when the value became another one: what it hands to onScrollbarAdjusted.
GtkValueChanged(value) ==
    IF value # sbPos /\ hasScrollbarAdjusted THEN <<value>> ELSE <<>>

\* SetScrollInfo keeps nPage within 0 .. nMax - nMin + 1 and nPos within
\* nMin .. nMax - max(nPage - 1, 0).
ScrollInfoPage(page, min, max) == Clamp(page, 0, max - min + 1)

ScrollInfoPos(pos, min, max, page) == Clamp(pos, min, max - Max(page - 1, 0))

SetScrollbarVisible(visible) ==
    /\ scrollbarVisible' = visible
    /\ sbLast' = ScrollbarOp("SetScrollbarVisible", visible, <<>>)
    /\ UNCHANGED <<sbMin, sbMax, sbPage, sbPos, hasScrollbarAdjusted>>
    /\ OnlyScrollbar

\* adjustment->configure(adjustment->get_value(), min, max, 1, 4, pageSize)
GtkConfigureScrollbar(min, max, pageSize) ==
    LET value == AdjustmentValue(sbPos, min, max, pageSize) IN
    /\ sbMin' = min
    /\ sbMax' = max
    /\ sbPage' = pageSize
    /\ sbPos' = value
    /\ sbLast' = ScrollbarOp("ConfigureScrollbar", <<min, max, pageSize>>,
                             GtkValueChanged(value))

\* SetScrollInfo with SIF_RANGE|SIF_PAGE
Win32ConfigureScrollbar(min, max, pageSize) ==
    LET nMin == ToUnits(min)
        nMax == ToUnits(max)
        nPage == ScrollInfoPage(ToUnits(pageSize), nMin, nMax)
    IN  /\ sbMin' = nMin
        /\ sbMax' = nMax
        /\ sbPage' = nPage
        /\ sbPos' = ScrollInfoPos(sbPos, nMin, nMax, nPage)
        /\ sbLast' = ScrollbarOp("ConfigureScrollbar", <<min, max, pageSize>>, <<>>)

ConfigureScrollbar(min, max, pageSize) ==
    /\ IF backend = "gtk" THEN GtkConfigureScrollbar(min, max, pageSize)
                          ELSE Win32ConfigureScrollbar(min, max, pageSize)
    /\ UNCHANGED <<scrollbarVisible, hasScrollbarAdjusted>>
    /\ OnlyScrollbar

\* adjustment->set_value(pos)
GtkSetScrollbarPosition(pos) ==
    LET value == AdjustmentValue(pos, sbMin, sbMax, sbPage) IN
    /\ sbPos' = value
    /\ sbLast' = ScrollbarOp("SetScrollbarPosition", pos, GtkValueChanged(value))

\* SetScrollInfo with SIF_POS, then onScrollbarAdjusted with the si.nPos that
\* was asked for.
Win32SetScrollbarPosition(pos) ==
    LET nPos == ToUnits(pos) IN
    /\ sbPos' = ScrollInfoPos(nPos, sbMin, sbMax, sbPage)
    /\ sbLast' = ScrollbarOp("SetScrollbarPosition", pos,
                             IF hasScrollbarAdjusted THEN <<FromUnits(nPos)>> ELSE <<>>)

SetScrollbarPosition(pos) ==
    /\ IF backend = "gtk" THEN GtkSetScrollbarPosition(pos)
                          ELSE Win32SetScrollbarPosition(pos)
    /\ UNCHANGED <<sbMin, sbMax, sbPage, scrollbarVisible, hasScrollbarAdjusted>>
    /\ OnlyScrollbar

\* window->onScrollbarAdjusted = ... (or = nullptr)
SetOnScrollbarAdjusted(b) ==
    /\ hasScrollbarAdjusted' = b
    /\ sbLast' = ScrollbarOp("SetOnScrollbarAdjusted", b, <<>>)
    /\ UNCHANGED <<sbMin, sbMax, sbPage, sbPos, scrollbarVisible>>
    /\ OnlyScrollbar

\* A callback calls Window::SetScrollbarPosition.  The call sets the
\* position and invokes onScrollbarAdjusted itself, inside the caller and
\* without a native event: win32 whenever the callback is set, gtk from
\* the value_changed signal of the adjustment, when the value became
\* another one and the callback is set.
CallSetScrollbarPosition(pos) ==
    /\ InCallback
    /\ Len(stack) < MaxDepth
    /\ IF backend = "gtk" THEN GtkSetScrollbarPosition(pos)
                          ELSE Win32SetScrollbarPosition(pos)
    /\ stack' = IF sbLast'.adjusted # <<>>
                THEN Append(stack, CallbackFrame("adjusted", "-"))
                ELSE stack
    /\ OnlyLoop
    /\ UNCHANGED <<shown, popupDone, contextMenuCancelTime, cancelUnread>>

\* gtk: where a request of the user takes the value; the adjustment was
\* configured with step increment 1 and page increment 4.
GtkScrollTarget(request, track) ==
    CASE request = "SB_LINEUP"   -> sbPos - Whole(1)
      [] request = "SB_PAGEUP"   -> sbPos - Whole(4)
      [] request = "SB_LINEDOWN" -> sbPos + Whole(1)
      [] request = "SB_PAGEDOWN" -> sbPos + Whole(4)
      [] request = "SB_TOP"      -> sbMin
      [] request = "SB_BOTTOM"   -> sbMax
      [] request \in ThumbRequests -> track
      [] OTHER                   -> sbPos

\* gtk: the scrollbar sets the value of its adjustment, which runs
\* on_scrollbar_value_changed when the value became another one.
GtkUserScroll(request, track) ==
    LET value == AdjustmentValue(GtkScrollTarget(request, track), sbMin, sbMax, sbPage) IN
    /\ sbPos' = value
    /\ sbLast' = ScrollbarOp("UserScroll", <<request, track>>, GtkValueChanged(value))

\* win32, WM_VSCROLL: si.nPos after the switch (nPos, nMin, nMax are int,
\* nPage is UINT: a position above the top goes below zero, a large UINT).
\* The switch has no default: any other request (SB_ENDSCROLL) leaves the
\* nPos that GetScrollInfo returned.
Win32ScrollTarget(request, nTrackPos) ==
    CASE request = "SB_LINEUP"   -> sbPos - SCROLLBAR_UNIT
      [] request = "SB_PAGEUP"   -> sbPos - sbPage
      [] request = "SB_LINEDOWN" -> sbPos + SCROLLBAR_UNIT
      [] request = "SB_PAGEDOWN" -> sbPos + sbPage
      [] request = "SB_TOP"      -> sbMin
      [] request = "SB_BOTTOM"   -> sbMax
      [] request \in ThumbRequests -> nTrackPos
      [] OTHER                   -> sbPos

\* win32, WM_VSCROLL: si.nPos = min((UINT)si.nPos, (UINT)(si.nMax - si.nPage)),
\* handed to onScrollbarAdjusted; the handler does not call SetScrollInfo.
Win32UserScroll(request, track) ==
    LET target == Win32ScrollTarget(request, ScrollInfoPos(ToUnits(track), sbMin, sbMax, sbPage))
        nPos == UnsignedMin(target, sbMax - sbPage)
    IN  /\ sbPos' = sbPos
        /\ sbLast' = ScrollbarOp("UserScroll", <<request, track>>,
                                 IF hasScrollbarAdjusted THEN <<FromUnits(nPos)>> ELSE <<>>)

\* The user clicks an arrow or the trough, or drags the thumb; win32: a
\* WM_VSCROLL message arrives.
UserScroll(request, track) ==
    /\ IF backend = "gtk" THEN GtkUserScroll(request, track)
                          ELSE Win32UserScroll(request, track)
    /\ UNCHANGED <<sbMin, sbMax, sbPage, scrollbarVisible, hasScrollbarAdjusted>>
    /\ OnlyScrollbar

\* A new window: the gtk adjustment is all zero, the win32 standard scrollbar
\* has the range 0 through 100, is not shown, and no callback is set.
ScrollbarInit ==
    /\ sbMin = 0
    /\ sbMax = IF backend = "gtk" THEN 0 ELSE 100
    /\ sbPage = 0
    /\ sbPos = 0
    /\ scrollbarVisible = FALSE
    /\ hasScrollbarAdjusted = FALSE
    /\ sbLast = [op |-> "none", arg |-> 0, pos |-> 0, adjusted |-> <<>>]

(***************************************************************************)
(* The menu bar of a window: Window::SetMenuBar.                           *)
(*                                                                         *)
(* A MenuBar is a shared object: the caller holds a MenuBarRef to it, and  *)
(* so does the window it was set on (the member menuBar).  It is destroyed *)
(* when the last of the two lets go.  0 stands for the empty MenuBarRef,   *)
(* and for the NULL of GtkWindow::_menu_bar.                               *)
(***************************************************************************)
MenuBars == 1 .. MaxBars

MenuBarOp(name, arg) ==
    [op |-> name, arg |-> arg, previous |-> menuBar, held |-> barHeld,
     accessedReleased |-> FALSE, nullDereferenced |-> FALSE]

\* GetOrCreateMainMenu: std::make_shared of a new menu bar, handed to the
\* caller.
GetOrCreateMainMenu(b) ==
    /\ ~barCrashed
    /\ barState[b] = "new"
    /\ barState' = [barState EXCEPT ![b] = "alive"]
    /\ barHeld' = barHeld \cup {b}
    /\ barLast' = MenuBarOp("GetOrCreateMainMenu", b)
    /\ UNCHANGED <<menuBar, gtkMenuBarPtr, attachedBars, barCrashed>>
    /\ OnlyMenuBar

\* The caller lets go of its MenuBarRef; the menu bar is destroyed unless the
\* window holds it.
DropMenuBarRef(b) ==
    /\ ~barCrashed
    /\ b \in barHeld
    /\ barHeld' = barHeld \ {b}
    /\ barState' = IF menuBar = b THEN barState ELSE [barState EXCEPT ![b] = "destroyed"]
    /\ barLast' = MenuBarOp("DropMenuBarRef", b)
    /\ UNCHANGED <<menuBar, gtkMenuBarPtr, attachedBars, barCrashed>>
    /\ OnlyMenuBar

\* menuBar = newMenuBar: the window lets go of the menu bar it held, which
\* destroys it when the caller holds it no more.
ReleasedBySet(newMenuBar) ==
    IF menuBar # 0 /\ menuBar # newMenuBar /\ menuBar \notin barHeld THEN {menuBar} ELSE {}

\* GtkWindow::set_menu_bar removes *_menu_bar from _vbox without asking
\* whether the object is still there.
GtkAccessesReleased(newMenuBar) == gtkMenuBarPtr \in ReleasedBySet(newMenuBar)

\* WindowImplGtk::SetMenuBar, then GtkWindow::set_menu_bar.  A destroyed
\* Gtk::MenuBar has left its container.  Removing through a pointer to a
\* destroyed object is undefined: the process may go on or crash.
GtkSetMenuBar(newMenuBar) ==
    LET released == ReleasedBySet(newMenuBar)
        freed == GtkAccessesReleased(newMenuBar)
        removed == (attachedBars \ released) \ {gtkMenuBarPtr}
    IN  /\ menuBar' = newMenuBar
        /\ barState' = [b \in MenuBars |-> IF b \in released THEN "destroyed" ELSE barState[b]]
        /\ gtkMenuBarPtr' = newMenuBar
        /\ attachedBars' = IF newMenuBar # 0 THEN removed \cup {newMenuBar} ELSE removed
        /\ barCrashed' \in (IF freed THEN BOOLEAN ELSE {FALSE})
        /\ barLast' = [MenuBarOp("SetMenuBar", newMenuBar) EXCEPT !.accessedReleased = freed]

\* WindowImplWin32::SetMenuBar: menuBar->hMenuBar is read whether or not
\* menuBar is empty.  Reading through the empty pointer is undefined: the
\* process may crash, or go on with whatever handle it read.
Win32SetMenuBar(newMenuBar) ==
    LET released == ReleasedBySet(newMenuBar) IN
    /\ menuBar' = newMenuBar
    /\ barState' = [b \in MenuBars |-> IF b \in released THEN "destroyed" ELSE barState[b]]
    /\ gtkMenuBarPtr' = gtkMenuBarPtr
    /\ IF newMenuBar # 0
       THEN /\ attachedBars' = {newMenuBar}
            /\ barCrashed' = FALSE
       ELSE /\ attachedBars' \in {attachedBars \ released, {}}
            /\ barCrashed' \in BOOLEAN
    /\ barLast' = [MenuBarOp("SetMenuBar", newMenuBar) EXCEPT !.nullDereferenced = (newMenuBar = 0)]

\* The caller passes a MenuBarRef it holds, or the empty one.
SetMenuBar(newMenuBar) ==
    /\ ~barCrashed
    /\ newMenuBar \in barHeld \cup {0}
    /\ IF backend = "gtk" THEN GtkSetMenuBar(newMenuBar) ELSE Win32SetMenuBar(newMenuBar)
    /\ UNCHANGED barHeld
    /\ OnlyMenuBar

\* A new window has no menu bar, and no menu bar is constructed yet.
MenuBarInit ==
    /\ barState = [b \in MenuBars |-> "new"]
    /\ barHeld = {}
    /\ menuBar = 0
    /\ gtkMenuBarPtr = 0
    /\ attachedBars = {}
    /\ barCrashed = FALSE
    /\ barLast = [op |-> "none", arg |-> 0, previous |-> 0, held |-> {},
                  accessedReleased |-> FALSE, nullDereferenced |-> FALSE]

(***************************************************************************)
(* The event model: KeyboardEvent and MouseEvent.                          *)
(*                                                                         *)
(* KeyboardEvent keeps chr and num in one union: the model keeps the word  *)
(* the two members share, a code point when key is CHARACTER and a         *)
(* function key number when it is FUNCTION.  Both are far below 2^31, so   *)
(* the word reads the same as char32_t and as int.                         *)
(***************************************************************************)
KeyboardEventOf(type, key, word, shiftDown, controlDown) ==
    [type |-> type, key |-> key, word |-> word,
     shiftDown |-> shiftDown, controlDown |-> controlDown]

\* The members of the union.
Chr(event) == event.word

Num(event) == event.word

\* The code points of the characters the model uses.
CodeOf(c) ==
    CASE c = "." -> 46
      [] c = ">" -> 62
      [] c = "x" -> 120
      [] c = "Delete" -> 127
      [] OTHER -> 0

\* The events Equals is applied to; 1 is F1 as num and U+0001 as chr.
EqualsEvents ==
    {KeyboardEventOf(type, key, word, shiftDown, controlDown) :
        type \in {"PRESS", "RELEASE"}, key \in {"CHARACTER", "FUNCTION"},
        word \in {1, CodeOf(".")}, shiftDown \in BOOLEAN, controlDown \in BOOLEAN}

EqualsIgnoringShift(a, b) ==
    a.type = b.type /\ a.key = b.key /\ Num(a) = Num(b) /\ a.controlDown = b.controlDown

\* KeyboardEvent::Equals: num is compared whatever the key tag is.
Equals(a, b) ==
    a.type = b.type /\ a.key = b.key /\ Num(a) = Num(b) /\
    a.shiftDown = b.shiftDown /\ a.controlDown = b.controlDown

\* a.Equals(b) is called.
CallEquals(a, b) ==
    /\ eqLast' = [op |-> "Equals", a |-> a, b |-> b, result |-> Equals(a, b)]
    /\ UNCHANGED <<now, contextMenuCancelTime, cancelUnread, hasMouseEvent, inLast>>
    /\ OnlyInput

(***************************************************************************)
(* Pointer input: what the adapter makes of a native pointer event.        *)
(*                                                                         *)
(* A native pointer event is a record: kind; button, the button a press or *)
(* release is about (0 when the event is about none); held, the other      *)
(* buttons held down; mods, the modifier keys; for a wheel event axis,     *)
(* delta (the sign of the rotation, 1 away from the user), smooth (a       *)
(* touchpad or high-resolution wheel) and underOther (the pointer is over  *)
(* another window).  The coordinates are passed through and left out.      *)
(***************************************************************************)
\* guiwin.cpp: GetMilliseconds() - Platform::contextMenuCancelTime < 100
ContextMenuCancelWindow == 100

\* The clock advances in steps of half that window; it starts well past 0,
\* the initial contextMenuCancelTime.
TickMs == ContextMenuCancelWindow \div 2

StartTime == 2 * ContextMenuCancelWindow

Buttons == 1 .. 3

ButtonOf(n) ==
    CASE n = 1 -> "LEFT"
      [] n = 2 -> "MIDDLE"
      [] n = 3 -> "RIGHT"
      [] OTHER -> "NONE"

PointerMods == {{}, {"Shift", "Control"}}

NativePointerEvents ==
    {e \in [kind : {"MOTION", "PRESS", "DBL_PRESS", "TRIPLE_PRESS", "RELEASE", "WHEEL", "LEAVE"},
            button : {0} \cup Buttons, held : SUBSET Buttons, mods : PointerMods,
            axis : {"none", "vertical", "horizontal"}, delta : {-1, 0, 1},
            smooth : BOOLEAN, underOther : BOOLEAN] :
        /\ (e.button # 0) = (e.kind \in {"PRESS", "DBL_PRESS", "TRIPLE_PRESS", "RELEASE"})
        /\ e.button \notin e.held
        /\ (e.axis # "none") = (e.kind = "WHEEL")
        /\ e.kind # "WHEEL" => (e.delta = 0 /\ ~e.smooth /\ ~e.underOther)
        /\ e.kind = "WHEEL" => (e.held \subseteq {1} /\ e.mods = {})
        /\ (e.kind = "WHEEL" /\ ~e.smooth) => e.delta # 0}

MouseEventOf(type, button, shiftDown, controlDown, scrollDelta) ==
    [type |-> type, button |-> button, shiftDown |-> shiftDown,
     controlDown |-> controlDown, scrollDelta |-> scrollDelta]

\* What became of a native event: the events handed to the callback, what
\* the callback returned, whether the host's default handling was
\* suppressed, and whether the event was dropped unread.
Outcome(events, returned, suppressed, dropped) ==
    [events |-> events, returned |-> returned, suppressed |-> suppressed,
     dropped |-> dropped]

Unhandled == Outcome(<<>>, <<>>, FALSE, FALSE)

\* gtk: the buttons in gdk_event->state, the state before the event: the
\* button that is being released is still in it.
GdkStateButtons(e) == IF e.kind = "RELEASE" THEN e.held \cup {e.button} ELSE e.held

\* GtkGLWidget::process_pointer_event: the button of the event.
GtkButton(button, stateButtons) ==
    IF button = 1 \/ 1 \in stateButtons THEN "LEFT"
    ELSE IF button = 2 \/ 2 \in stateButtons THEN "MIDDLE"
    ELSE IF button = 3 \/ 3 \in stateButtons THEN "RIGHT"
    ELSE "NONE"

\* GtkGLWidget::process_pointer_event; rv is what onMouseEvent returns.
ProcessPointerEvent(type, e, button, scrollDelta, rv) ==
    LET event == MouseEventOf(type, GtkButton(button, GdkStateButtons(e)),
                              "Shift" \in e.mods, "Control" \in e.mods, scrollDelta)
    IN  IF hasMouseEvent THEN Outcome(<<event>>, <<rv>>, rv, FALSE) ELSE Unhandled

\* gtk: direction and delta_y of the GdkEventScroll of a wheel event.
GdkDirection(e) ==
    IF e.smooth THEN "SMOOTH"
    ELSE IF e.axis = "vertical" THEN (IF e.delta > 0 THEN "UP" ELSE "DOWN")
    ELSE (IF e.delta > 0 THEN "RIGHT" ELSE "LEFT")

GdkDeltaY(e) == IF e.smooth /\ e.axis = "vertical" THEN 0 - e.delta ELSE 0

\* GtkGLWidget::on_scroll_event: delta, or 0 where the handler returns false.
GtkScrollDelta(direction, deltaY) ==
    IF deltaY < 0 \/ direction = "UP" THEN 1
    ELSE IF deltaY > 0 \/ direction = "DOWN" THEN -1
    ELSE 0

\* GtkGLWidget::on_motion_notify_event, on_button_press_event,
\* on_button_release_event, on_scroll_event, on_leave_notify_event.
GtkPointerOutcome(e, rv) ==
    CASE e.kind = "TRIPLE_PRESS" -> Unhandled
      [] e.kind = "WHEEL" ->
            LET delta == GtkScrollDelta(GdkDirection(e), GdkDeltaY(e))
            IN  IF delta = 0 THEN Unhandled
                ELSE ProcessPointerEvent("SCROLL_VERT", e, 0, delta, rv)
      [] OTHER -> ProcessPointerEvent(e.kind, e, e.button, 0, rv)

\* win32: MK_LBUTTON, MK_MBUTTON, MK_RBUTTON in wParam.
Win32MaskButton(held) ==
    IF 1 \in held THEN "LEFT"
    ELSE IF 2 \in held THEN "MIDDLE"
    ELSE IF 3 \in held THEN "RIGHT"
    ELSE "NONE"

\* win32: MK_SHIFT and MK_CONTROL in wParam; WM_MOUSELEAVE carries none.
Win32Keys(e) == IF e.kind = "LEAVE" THEN {} ELSE e.mods

\* WndProc, the switch(msg) that fills in the MouseEvent.  A wheel message
\* for another window is sent on and leaves the event as MouseEvent{} made
\* it: type MOTION, no button, no delta.
Win32MouseEvent(e) ==
    LET shiftDown == "Shift" \in Win32Keys(e)
        controlDown == "Control" \in Win32Keys(e)
    IN  CASE e.kind \in {"PRESS", "DBL_PRESS", "RELEASE"} ->
                MouseEventOf(e.kind, ButtonOf(e.button), shiftDown, controlDown, 0)
          [] e.kind = "WHEEL" /\ e.underOther ->
                MouseEventOf("MOTION", "NONE", shiftDown, controlDown, 0)
          [] e.kind = "WHEEL" /\ ~e.underOther ->
                MouseEventOf("SCROLL_VERT", "NONE", shiftDown, controlDown,
                             IF e.delta > 0 THEN 1 ELSE -1)
          [] e.kind = "MOTION" ->
                MouseEventOf("MOTION", Win32MaskButton(e.held), shiftDown, controlDown, 0)
          [] OTHER -> MouseEventOf("LEAVE", "NONE", shiftDown, controlDown, 0)

\* WndProc: the button messages test the cancel time first.
Win32CancelDrops(e) ==
    /\ e.kind \in {"PRESS", "DBL_PRESS", "RELEASE"}
    /\ now - contextMenuCancelTime < ContextMenuCancelWindow

\* WndProc for the mouse messages.  WM_MOUSEHWHEEL is not among them and
\* goes to DefWindowProc; for the others the value onMouseEvent returns is
\* not looked at and WndProc returns 1.
Win32PointerOutcome(e, rv) ==
    IF e.kind = "WHEEL" /\ e.axis = "horizontal" THEN Unhandled
    ELSE IF Win32CancelDrops(e) THEN Outcome(<<>>, <<>>, TRUE, TRUE)
    ELSE IF hasMouseEvent THEN Outcome(<<Win32MouseEvent(e)>>, <<rv>>, TRUE, FALSE)
    ELSE Outcome(<<>>, <<>>, TRUE, FALSE)

InputOp(kind, e, to, outcome) ==
    [op |-> kind, native |-> e, to |-> to, events |-> outcome.events,
     returned |-> outcome.returned, suppressed |-> outcome.suppressed,
     dropped |-> outcome.dropped, firstPress |-> cancelUnread,
     sinceCancel |-> now - contextMenuCancelTime]

NoInput == [kind |-> "none"]

\* The host reports a pointer event; rv is what onMouseEvent returns for it.
NativePointer(e, rv) ==
    /\ e.kind = "TRIPLE_PRESS" => backend = "gtk"
    /\ inLast' = InputOp("Pointer", e, "onMouseEvent",
                         IF backend = "gtk" THEN GtkPointerOutcome(e, rv)
                                            ELSE Win32PointerOutcome(e, rv))
    /\ cancelUnread' = IF e.kind \in {"PRESS", "DBL_PRESS"} THEN FALSE ELSE cancelUnread
    /\ UNCHANGED <<now, contextMenuCancelTime, hasMouseEvent, eqLast>>
    /\ OnlyInput

\* window->onMouseEvent = ... (or = nullptr)
SetOnMouseEvent(b) ==
    /\ hasMouseEvent' = b
    /\ inLast' = InputOp("SetOnMouseEvent", NoInput, "none", Unhandled)
    /\ UNCHANGED <<now, contextMenuCancelTime, cancelUnread, eqLast>>
    /\ OnlyInput

\* MenuImplWin32::PopUp after TrackPopupMenu returned: id 0, the menu was
\* dismissed, writes the cancel time.  MenuImplGtk::PopUp keeps no time.
TrackPopupMenuReturns(dismissed) ==
    /\ IF backend = "win32" /\ dismissed
       THEN contextMenuCancelTime' = now /\ cancelUnread' = TRUE
       ELSE UNCHANGED <<contextMenuCancelTime, cancelUnread>>
    /\ inLast' = InputOp("PopUp", NoInput, "none", Unhandled)
    /\ UNCHANGED <<now, hasMouseEvent, eqLast>>
    /\ OnlyInput

\* Time passes.
Tick ==
    /\ now < StartTime + MaxTicks * TickMs
    /\ now' = now + TickMs
    /\ inLast' = InputOp("Tick", NoInput, "none", Unhandled)
    /\ UNCHANGED <<contextMenuCancelTime, cancelUnread, hasMouseEvent, eqLast>>
    /\ OnlyInput

(***************************************************************************)
(* Keyboard input: what the adapter makes of a native key event while the  *)
(* rendering surface of a top-level window has the focus.                  *)
(*                                                                         *)
(* A native key event is a record: type; key, the key on a US keyboard;    *)
(* mods, the modifier keys held down.                                      *)
(***************************************************************************)
NativeKeys == {"x", ".", "F1", "Shift", "Delete"}

KeyMods == SUBSET {"Shift", "Control", "Alt"}

NativeKeyEvents == [type : {"PRESS", "RELEASE"}, key : NativeKeys, mods : KeyMods]

\* The number of a function key, 0 for another key.
FunctionNumber(key) == IF key = "F1" THEN 1 ELSE 0

\* gtk: gdk_event->keyval, the symbol at the shift level of the event.
GdkKeyval(key, mods) ==
    IF "Shift" \in mods
    THEN CASE key = "x" -> "X"
           [] key = "." -> ">"
           [] OTHER -> key
    ELSE key

\* gdk_keyval_to_lower
GdkKeyvalToLower(keyval) == IF keyval = "X" THEN "x" ELSE keyval

\* gdk_keyval_to_unicode: 0 for a symbol that is no character.
GdkKeyvalToUnicode(keyval) ==
    IF keyval \in {".", ">", "x", "Delete"} THEN CodeOf(keyval) ELSE 0

\* GtkGLWidget::process_key_event; rv is what SS.GW.KeyboardEvent returns.
GtkKeyOutcome(e, rv) ==
    LET chr == GdkKeyvalToUnicode(GdkKeyvalToLower(GdkKeyval(e.key, e.mods)))
        shiftDown == "Shift" \in e.mods
        controlDown == "Control" \in e.mods
    IN  IF e.mods \ {"Shift", "Control"} # {} THEN Unhandled
        ELSE IF chr # 0
        THEN Outcome(<<KeyboardEventOf(e.type, "CHARACTER", chr, shiftDown, controlDown)>>,
                     <<rv>>, rv, FALSE)
        ELSE IF FunctionNumber(e.key) # 0
        THEN Outcome(<<KeyboardEventOf(e.type, "FUNCTION", FunctionNumber(e.key),
                                       shiftDown, controlDown)>>,
                     <<rv>>, rv, FALSE)
        ELSE Unhandled

\* win32: with Alt down and Control up the host sends WM_SYSKEYDOWN and
\* WM_SYSKEYUP in place of WM_KEYDOWN and WM_KEYUP.
Win32KeyMessage(e) ==
    IF "Alt" \in e.mods /\ "Control" \notin e.mods
    THEN (IF e.type = "PRESS" THEN "WM_SYSKEYDOWN" ELSE "WM_SYSKEYUP")
    ELSE (IF e.type = "PRESS" THEN "WM_KEYDOWN" ELSE "WM_KEYUP")

\* tolower(MapVirtualKeyW(wParam, MAPVK_VK_TO_CHAR)): the unshifted
\* character of the key, 0 for a key that has none.
Win32MapVirtualKey(key) == IF key \in {"x", "."} THEN CodeOf(key) ELSE 0

\* WndProc WM_KEYDOWN / WM_KEYUP: the KeyboardEvent, or <<>> for a key that
\* maps to nothing.
Win32KeyboardEvent(e) ==
    LET shiftDown == "Shift" \in e.mods
        controlDown == "Control" \in e.mods
        chr == Win32MapVirtualKey(e.key)
    IN  IF FunctionNumber(e.key) # 0
        THEN <<KeyboardEventOf(e.type, "FUNCTION", FunctionNumber(e.key),
                               shiftDown, controlDown)>>
        ELSE IF chr = 0
        THEN (IF e.key = "Delete"
              THEN <<KeyboardEventOf(e.type, "CHARACTER", CodeOf("Delete"),
                                     shiftDown, controlDown)>>
              ELSE <<>>)
        ELSE IF chr = CodeOf(".") /\ shiftDown
        THEN <<KeyboardEventOf(e.type, "CHARACTER", CodeOf(">"), FALSE, controlDown)>>
        ELSE <<KeyboardEventOf(e.type, "CHARACTER", chr, shiftDown, controlDown)>>

\* WndProc for the key messages of a top-level window (GetParent is NULL):
\* WM_SYSKEYDOWN and WM_SYSKEYUP go to DefWindowProc; for WM_KEYDOWN and
\* WM_KEYUP the value onKeyboardEvent returns is not looked at and WndProc
\* returns 1.
Win32KeyOutcome(e, rv) ==
    IF Win32KeyMessage(e) \in {"WM_SYSKEYDOWN", "WM_SYSKEYUP"} THEN Unhandled
    ELSE IF Win32KeyboardEvent(e) # <<>> /\ hasKeyboardEvent
    THEN Outcome(Win32KeyboardEvent(e), <<rv>>, TRUE, FALSE)
    ELSE Outcome(<<>>, <<>>, TRUE, FALSE)

\* The host reports a key event; rv is what the keyboard handler returns.
NativeKey(e, rv) ==
    /\ inLast' = IF backend = "gtk"
                 THEN InputOp("Key", e, "SS.GW.KeyboardEvent", GtkKeyOutcome(e, rv))
                 ELSE InputOp("Key", e, "onKeyboardEvent", Win32KeyOutcome(e, rv))
    /\ UNCHANGED <<now, contextMenuCancelTime, cancelUnread, hasMouseEvent, eqLast>>
    /\ OnlyInput

\* No callback is set, no menu was ever popped up, nothing was compared.
InputInit ==
    /\ now = StartTime
    /\ contextMenuCancelTime = 0
    /\ cancelUnread = FALSE
    /\ hasMouseEvent = FALSE
    /\ inLast = [op |-> "none", native |-> NoInput, to |-> "none", events |-> <<>>,
                 returned |-> <<>>, suppressed |-> FALSE, dropped |-> FALSE,
                 firstPress |-> FALSE, sinceCancel |-> StartTime]
    /\ eqLast = [op |-> "none", a |-> KeyboardEventOf("PRESS", "CHARACTER", 1, FALSE, FALSE),
                 b |-> KeyboardEventOf("PRESS", "CHARACTER", 1, FALSE, FALSE),
                 result |-> TRUE]

(***************************************************************************)
(* Native calls that fail (win32).                                         *)
(*                                                                         *)
(* A native call returns a result and leaves a last error.  sscheck wraps  *)
(* a call: it clears the last error, and when the result is zero it hands  *)
(* the call site and the text of the call to CheckLastError, which ends    *)
(* the process through FatalError when a last error is set.  A call that   *)
(* is not wrapped is followed by the next statement whatever it returns.   *)
(* fatalError holds the diagnostic FatalError was given; the process is    *)
(* over once it is not empty.                                              *)
(***************************************************************************)
Titles == {"a", "b"}

\* A native call a handler made: where, what, how it ended, and whether it
\* was wrapped in sscheck.
NativeCall(function, expr, outcome, checked) ==
    [function |-> function, expr |-> expr, outcome |-> outcome, checked |-> checked]

NativeOp(name, calls) ==
    [op |-> name, calls |-> calls]

\* std::wstring Title(s): the program's name, then the title.
Title(s) == <<"SolveSpace", s>>

\* WindowImplWin32::SetTitle: sscheck(SetWindowTextW(hWindow, ...)).
\* WindowImplGtk::SetTitle: gtkWindow.set_title, which reports nothing.
SetTitle(title, outcome) ==
    /\ fatalError = <<>>
    /\ IF backend = "gtk"
       THEN /\ outcome.result
            /\ winTitle' = <<title, "SolveSpace">>
            /\ fatalError' = <<>>
            /\ nativeLast' = NativeOp("SetTitle", <<>>)
       ELSE /\ winTitle' = IF outcome.result THEN Title(title) ELSE winTitle
            /\ fatalError' = sscheck("SetTitle", "SetWindowTextW", outcome)
            /\ nativeLast' = NativeOp("SetTitle",
                   <<NativeCall("SetTitle", "SetWindowTextW", outcome, TRUE)>>)
    /\ UNCHANGED placement
    /\ OnlyNative

\* What FreezePosition and ThawPosition leave alone besides the placement.
OnlyNativePlacement ==
    UNCHANGED <<backend, timerVars, loopVars, menuVars, itemVars,
                edShown, edRect, edText, edSel, edFont, edGrab, edLast,
                hasEditingDone, hasKeyboardEvent, sbVars, barVars, inVars, winTitle,
                hasRender, hasClose, handlingFatalError, wndLast>>

\* WindowImplWin32::FreezePosition with the outcome of its
\* GetWindowPlacement: the call is not wrapped, and rcNormalPosition of the
\* member is stored whatever it returned.  sscheck(isMaximized = IsZoomed)
\* is zero without a last error for a window that is not maximized.
Win32FreezePositionCalls(key, get) ==
    LET rc == GetWindowPlacement(get)
        zoomed == [result |-> winMaximized, lastError |-> S_OK]
    IN  /\ backend = "win32"
        /\ fatalError = <<>>
        /\ placement' = rc
        /\ showCmd' = GetWindowPlacementShowCmd(get)
        /\ fatalError' = sscheck("FreezePosition", "isMaximized = IsZoomed(hWindow)", zoomed)
        /\ cnf' = CnfFrozen(key, [left |-> rc.left,
                                  right |-> rc.right,
                                  top |-> rc.top,
                                  bottom |-> rc.bottom,
                                  maximized |-> BoolInt(winMaximized)])
        /\ posLast' = FreezeOp(key, rc, get.result)
        /\ nativeLast' = NativeOp("FreezePosition",
               <<NativeCall("FreezePosition", "GetWindowPlacement", get, FALSE),
                 NativeCall("FreezePosition", "isMaximized = IsZoomed(hWindow)", zoomed, TRUE)>>)
        /\ OnlyNativePlacement
        /\ UNCHANGED <<windowVisible, edFocus, winRect, winMaximized, monitors>>
        /\ UNCHANGED <<overlapped, fsLast>>

\* WindowImplWin32::ThawPosition with the outcomes of its GetWindowPlacement
\* and SetWindowPlacement: neither is wrapped.  What is not stored comes
\* from the member; the window is placed and shown when SetWindowPlacement
\* succeeds and stays as it is when it does not.
Win32ThawPositionCalls(key, get, set) ==
    LET normal == GetWindowPlacement(get)
        rc == Rect(CnfThawInt(normal.left, <<key, "left">>),
                   CnfThawInt(normal.top, <<key, "top">>),
                   CnfThawInt(normal.right, <<key, "right">>),
                   CnfThawInt(normal.bottom, <<key, "bottom">>))
        mrc == NearestMonitor(rc)
        clamped == Rect(Clamp(rc.left, mrc.left, mrc.right),
                        Clamp(rc.top, mrc.top, mrc.bottom),
                        Clamp(rc.right, mrc.left, mrc.right),
                        Clamp(rc.bottom, mrc.top, mrc.bottom))
    IN  /\ backend = "win32"
        /\ fatalError = <<>>
        /\ placement' = clamped
        /\ showCmd' = IF CnfThawInt(0, <<key, "maximized">>) # 0
                      THEN "SW_SHOWMAXIMIZED" ELSE "SW_SHOW"
        /\ fatalError' = <<>>
        /\ IF set.result
           THEN /\ winRect' = clamped
                /\ winMaximized' = (winMaximized \/ CnfThawInt(0, <<key, "maximized">>) # 0)
                /\ IF windowVisible
                   THEN UNCHANGED <<windowVisible, edFocus>>
                   ELSE WindowShownAs(TRUE)
           ELSE UNCHANGED <<winRect, winMaximized, windowVisible, edFocus>>
        /\ posLast' = PlacementOp("ThawPosition", key, rc)
        /\ nativeLast' = NativeOp("ThawPosition",
               <<NativeCall("ThawPosition", "GetWindowPlacement", get, FALSE),
                 NativeCall("ThawPosition", "SetWindowPlacement", set, FALSE)>>)
        /\ OnlyNativePlacement
        /\ UNCHANGED <<monitors, cnf, overlapped, fsLast>>

\* A window as the constructor leaves it: the placement member zeroed, no
\* title.
NativeInit ==
    /\ placement = Rect(0, 0, 0, 0)
    /\ winTitle = <<>>
    /\ fatalError = <<>>
    /\ nativeLast = [op |-> "none", calls |-> <<>>]

(***************************************************************************)
(* The win32 window: full screen, and the two window procedures.           *)
(*                                                                         *)
(* SetFullScreen keeps where the window was in the WINDOWPLACEMENT member  *)
(* that FreezePosition and ThawPosition fill in too.  WndProc and          *)
(* EditorWndProc are described here by which callback a message ends in;   *)
(* the other components describe what the callback is handed, while        *)
(* handlingFatalError is clear.                                            *)
(***************************************************************************)
\* WindowImplWin32::IsFullScreen: !(style & WS_OVERLAPPEDWINDOW).
IsFullScreen == ~overlapped

\* The record of a SetFullScreen call; before holds the rectangle and the
\* maximized state the window had when it last went from overlapped to
\* full screen.
FullScreenOp(fullScreen) ==
    [op |-> "SetFullScreen",
     arg |-> fullScreen,
     wasFullScreen |-> IsFullScreen,
     before |-> IF fullScreen /\ ~IsFullScreen
                THEN <<[rect |-> winRect, maximized |-> winMaximized]>>
                ELSE fsLast.before]

\* SetWindowPlacement(hWindow, &placement): the normal rectangle of the
\* member, and the window shown as its showCmd says.
SetWindowPlacement ==
    /\ winRect' = placement
    /\ winMaximized' = CASE showCmd = "SW_SHOWMAXIMIZED" -> TRUE
                         [] showCmd = "SW_SHOWNORMAL" -> FALSE
                         [] OTHER -> winMaximized
    /\ IF windowVisible = (showCmd # "SW_HIDE")
       THEN UNCHANGED <<windowVisible, edFocus>>
       ELSE WindowShownAs(showCmd # "SW_HIDE")

\* WindowImplWin32::SetFullScreen, its native calls succeeding.
\* true: the placement is read into the member, the frame is taken off and
\* the window covers the monitor nearest to it.  false: the frame is put
\* back and the window is placed as the member says.
SetFullScreen(fullScreen) ==
    /\ backend = "win32"
    /\ Running
    /\ IF fullScreen
       THEN /\ placement' = GetWindowPlacement([result |-> TRUE, lastError |-> S_OK])
            /\ showCmd' = GetWindowPlacementShowCmd([result |-> TRUE, lastError |-> S_OK])
            /\ overlapped' = FALSE
            /\ winRect' = IF winMaximized THEN winRect ELSE NearestMonitor(winRect)
            /\ UNCHANGED <<winMaximized, windowVisible, edFocus>>
       ELSE /\ overlapped' = TRUE
            /\ SetWindowPlacement
            /\ UNCHANGED <<placement, showCmd>>
    /\ fsLast' = FullScreenOp(fullScreen)
    /\ OnlyNativePlacement
    /\ UNCHANGED <<monitors, cnf, posLast, fatalError, nativeLast>>

\* The messages a window procedure is called with.
ButtonMessages == {"WM_LBUTTONDOWN"}

MouseMessages == ButtonMessages \cup {"WM_MOUSEMOVE"}

KeyMessages == {"WM_KEYDOWN", "WM_KEYUP"}

WndMessages ==
    MouseMessages \cup KeyMessages \cup
    {"WM_PAINT", "WM_CLOSE", "WM_DESTROY", "WM_SIZE", "WM_VSCROLL", "WM_MENUCOMMAND"}

VirtualKeys == {"VK_RETURN", "VK_ESCAPE", "VK_A"}

\* The switch of WndProc: the callback the message ends in, none when the
\* slot is empty.  dropped: a click within the cancel window of a popup, a
\* key that maps to no character.
WndProcSwitch(msg, dropped, item, deref) ==
    CASE msg = "WM_PAINT" -> IF hasRender THEN <<"onRender">> ELSE <<>>
      [] msg \in {"WM_CLOSE", "WM_DESTROY"} -> IF hasClose THEN <<"onClose">> ELSE <<>>
      [] msg \in MouseMessages ->
             IF msg \in ButtonMessages /\ dropped THEN <<>>
             ELSE IF hasMouseEvent THEN <<"onMouseEvent">> ELSE <<>>
      [] msg \in KeyMessages ->
             IF dropped THEN <<>>
             ELSE IF hasKeyboardEvent THEN <<"onKeyboardEvent">> ELSE <<>>
      [] msg = "WM_VSCROLL" ->
             IF hasScrollbarAdjusted THEN <<"onScrollbarAdjusted">> ELSE <<>>
      [] msg = "WM_MENUCOMMAND" ->
             IF deref = "item" /\ HasTrigger(item) THEN <<"onTrigger">> ELSE <<>>
      [] OTHER -> <<>>

\* WndProc without its first line.
WndProcInvokesUnguarded(handling, associated, msg, dropped, item, deref) ==
    IF ~associated THEN <<>> ELSE WndProcSwitch(msg, dropped, item, deref)

\* WindowImplWin32::WndProc: the callbacks it invokes.  It returns at once
\* while a fatal error is handled, and defers to DefWindowProc before the
\* window is associated with its WindowImplWin32.
WndProcInvokes(handling, associated, msg, dropped, item, deref) ==
    IF handling THEN <<>>
    ELSE IF ~associated THEN <<>>
    ELSE WndProcSwitch(msg, dropped, item, deref)

\* WndProc, WM_MENUCOMMAND: whether the read of menuItem->onTrigger through
\* the cast of GetMenuItemID ends the process.
WndProcCrashes(handling, associated, msg, deref) ==
    ~handling /\ associated /\ msg = "WM_MENUCOMMAND" /\ deref = "crash"

\* WindowImplWin32::EditorWndProc: the callbacks it invokes.  Return ends
\* the editing, Escape is sent on to WndProc of the window, and the rest
\* goes to the procedure of the edit control.
EditorWndProcInvokes(handling, msg, wParam) ==
    IF handling THEN <<>>
    ELSE IF msg = "WM_KEYDOWN" /\ wParam = "VK_RETURN" /\ hasEditingDone
         THEN <<"onEditingDone">>
    ELSE IF msg = "WM_KEYDOWN" /\ wParam = "VK_ESCAPE"
         THEN WndProcInvokes(handling, TRUE, msg, FALSE, "i1", "item")
    ELSE <<>>

WndOp(proc, msg, invoked, would, crashed) ==
    [proc |-> proc, msg |-> msg, handling |-> handlingFatalError,
     invoked |-> invoked, would |-> would, crashed |-> crashed]

OnlyWndProc ==
    /\ OnlyWnd
    /\ UNCHANGED <<nativeVars, overlapped, showCmd, fsLast>>

\* A message arrives at WndProc.
WndProc(msg, associated, dropped, item, deref) ==
    /\ backend = "win32"
    /\ ~wndLast.crashed
    /\ wndLast' = WndOp("WndProc", msg,
                        WndProcInvokes(handlingFatalError, associated, msg, dropped, item, deref),
                        WndProcInvokes(FALSE, associated, msg, dropped, item, deref),
                        WndProcCrashes(handlingFatalError, associated, msg, deref))
    /\ UNCHANGED <<hasRender, hasClose, handlingFatalError>>
    /\ OnlyWndProc

\* A message arrives at EditorWndProc.
EditorWndProc(msg, wParam) ==
    /\ backend = "win32"
    /\ ~wndLast.crashed
    /\ wndLast' = WndOp("EditorWndProc", msg,
                        EditorWndProcInvokes(handlingFatalError, msg, wParam),
                        EditorWndProcInvokes(FALSE, msg, wParam),
                        FALSE)
    /\ UNCHANGED <<hasRender, hasClose, handlingFatalError>>
    /\ OnlyWndProc

\* Window::onRender is set or cleared.
SetOnRender(b) ==
    /\ hasRender # b
    /\ hasRender' = b
    /\ UNCHANGED <<hasClose, handlingFatalError, wndLast>>
    /\ OnlyWndProc

\* Window::onClose is set or cleared.
SetOnClose(b) ==
    /\ hasClose # b
    /\ hasClose' = b
    /\ UNCHANGED <<hasRender, handlingFatalError, wndLast>>
    /\ OnlyWndProc

\* The handling of a fatal error begins: the flag the two procedures read
\* is set, by code that is not part of the adapters.
FatalErrorBegins ==
    /\ ~handlingFatalError
    /\ handlingFatalError' = TRUE
    /\ UNCHANGED <<hasRender, hasClose, wndLast>>
    /\ OnlyWndProc

\* A window as the constructor leaves it: overlapped, the placement member
\* zeroed, no callback set.
WndInit ==
    /\ overlapped = TRUE
    /\ showCmd = "SW_HIDE"
    /\ fsLast = [op |-> "none", arg |-> FALSE, wasFullScreen |-> FALSE, before |-> <<>>]
    /\ hasRender = FALSE
    /\ hasClose = FALSE
    /\ handlingFatalError = FALSE
    /\ wndLast = [proc |-> "none", msg |-> "none", handling |-> FALSE,
                  invoked |-> <<>>, would |-> <<>>, crashed |-> FALSE]

(***************************************************************************)
(* The specifications.                                                     *)
(***************************************************************************)
\* CreateTimer: a live Timer, no callback, nothing registered.
TimerInit ==
    /\ timerAlive = [t \in Timers |-> TRUE]
    /\ onTimeout = [t \in Timers |-> FALSE]
    /\ connection = [t \in Timers |-> 0]
    /\ hostTimers = {}
    /\ posted = {}
    /\ running = NoHandler
    /\ timerLog = [t \in Timers |-> <<>>]

InitAll ==
    /\ backend \in Backends
    /\ TimerInit
    /\ LoopInit
    /\ MenuInit
    /\ ItemInit
    /\ EditorInit
    /\ PlacementInit
    /\ ScrollbarInit
    /\ MenuBarInit
    /\ InputInit
    /\ NativeInit
    /\ WndInit

InitTimer == InitAll

NextTimer ==
    \/ \E t \in Timers : WindUp(t)
    \/ \E t \in Timers, b \in BOOLEAN : SetOnTimeout(t, b)
    \/ \E s \in hostTimers, uaf \in UseAfterFreeOutcomes : GtkDispatch(s, uaf)
    \/ GtkHandlerReturn
    \/ \E s \in hostTimers : Win32Elapse(s)
    \/ \E m \in posted, kill \in NativeOutcomes, uaf \in UseAfterFreeOutcomes :
           Win32Dispatch(m, kill, uaf)
    \/ Win32HandlerReturn
    \/ \E t \in Timers : DestroyTimer(t)

SpecTimer == InitTimer /\ [][NextTimer]_vars

InitLoop == InitAll

\* The positions a callback calls SetScrollbarPosition with.
LoopScrollPositions == {Whole(0), Whole(3)}

NextLoop ==
    \/ \E ev \in NativeEvents : DispatchEvent(ev)
    \/ CallbackReturn
    \/ \E m \in Menus : CallPopUp(m)
    \/ \E m \in Menus, i \in Items, deref \in ItemIdOutcomes : UserSelect(m, i, deref)
    \/ \E m \in Menus : UserDismiss(m)
    \/ PopUpReturn
    \/ CallRedraw
    \/ RedrawReturn
    \/ \E pos \in LoopScrollPositions : CallSetScrollbarPosition(pos)
    \/ stack = <<>> /\ \E visible \in BOOLEAN : SetVisible(visible)
    \/ stack = <<>> /\ \E b \in BOOLEAN : SetOnRender(b)
    \/ stack = <<>> /\ \E b \in BOOLEAN : hasScrollbarAdjusted # b /\ SetOnScrollbarAdjusted(b)
    \/ stack = <<>> /\ sbPage = 0 /\ ConfigureScrollbar(Whole(0), Whole(10), Whole(2))

SpecLoop == InitLoop /\ [][NextLoop]_vars

InitMenu == InitAll

NextMenu ==
    \/ CreateMenu
    \/ \E m \in ObjIds, keep \in BOOLEAN : AddItem(m, keep)
    \/ \E m \in ObjIds, keep \in BOOLEAN : AddSubMenu(m, keep)
    \/ \E m \in ObjIds : AddSeparator(m)
    \/ \E m \in ObjIds : Clear(m)
    \/ \E o \in ObjIds : DropHandle(o)

SpecMenu == InitMenu /\ [][NextMenu]_vars

InitItem == InitAll

NextItem ==
    \/ \E i \in Items, type \in Indicators : SetIndicator(i, type)
    \/ \E i \in Items, b \in BOOLEAN : SetActive(i, b)
    \/ \E i \in Items, b \in BOOLEAN : SetEnabled(i, b)
    \/ \E i \in Items, deref \in ItemIdOutcomes : UserActivate(i, deref)

SpecItem == InitItem /\ [][NextItem]_vars

InitEditor == InitAll

NextEditor ==
    \/ \E visible \in BOOLEAN : SetVisible(visible)
    \/ \E x \in Coords, y \in Baselines, fontHeight \in FontHeights, minWidth \in MinWidths,
          isMonospace \in BOOLEAN, text \in SeedTexts :
            ShowEditor(x, y, fontHeight, minWidth, isMonospace, text)
    \/ HideEditor
    \/ \E c \in Chars : TypeChar(c)
    \/ PressEscape
    \/ PressEnter
    \/ \E k \in Keys : ReleaseKey(k)
    \/ \E b \in BOOLEAN : SetOnEditingDone(b)
    \/ \E b \in BOOLEAN : SetOnKeyboardEvent(b)

SpecEditor == InitEditor /\ [][NextEditor]_vars

InitPlacement == InitAll

NextPlacement ==
    \/ \E visible \in BOOLEAN : SetVisible(visible)
    \/ \E key \in PosKeys : FreezePosition(key)
    \/ \E key \in PosKeys : ThawPosition(key)
    \/ \E rc \in UserRects : UserMove(rc)
    \/ UserMaximize
    \/ \E config \in MonitorConfigs : MonitorChange(config)

SpecPlacement == InitPlacement /\ [][NextPlacement]_vars

InitScrollbar == InitAll

NextScrollbar ==
    \/ \E visible \in BOOLEAN : SetScrollbarVisible(visible)
    \/ \E range \in ScrollRanges : ConfigureScrollbar(range[1], range[2], range[3])
    \/ \E pos \in ScrollPositions : SetScrollbarPosition(pos)
    \/ \E b \in BOOLEAN : SetOnScrollbarAdjusted(b)
    \/ \E request \in ScrollRequests, track \in TrackPositions :
           /\ backend = "gtk" => request # "SB_ENDSCROLL"
           /\ UserScroll(request, track)

SpecScrollbar == InitScrollbar /\ [][NextScrollbar]_vars

InitMenuBar == InitAll

NextMenuBar ==
    \/ \E b \in MenuBars : GetOrCreateMainMenu(b)
    \/ \E b \in MenuBars : DropMenuBarRef(b)
    \/ \E b \in MenuBars \cup {0} : SetMenuBar(b)

SpecMenuBar == InitMenuBar /\ [][NextMenuBar]_vars

InitEquals == InitAll

NextEquals == \E a \in EqualsEvents, b \in EqualsEvents : CallEquals(a, b)

SpecEquals == InitEquals /\ [][NextEquals]_vars

InitPointer == InitAll

NextPointer ==
    \/ \E e \in NativePointerEvents, rv \in BOOLEAN : NativePointer(e, rv)
    \/ \E b \in BOOLEAN : SetOnMouseEvent(b)
    \/ \E dismissed \in BOOLEAN : TrackPopupMenuReturns(dismissed)
    \/ Tick

SpecPointer == InitPointer /\ [][NextPointer]_vars

InitKeyboard == InitAll

NextKeyboard ==
    \/ \E e \in NativeKeyEvents, rv \in BOOLEAN : NativeKey(e, rv)
    \/ \E b \in BOOLEAN : SetOnKeyboardEvent(b)

SpecKeyboard == InitKeyboard /\ [][NextKeyboard]_vars

InitNative == InitAll

NextNative ==
    \/ \E title \in Titles, outcome \in NativeOutcomes : SetTitle(title, outcome)
    \/ \E key \in PosKeys, get \in NativeOutcomes : Win32FreezePositionCalls(key, get)
    \/ \E key \in PosKeys, get \in NativeOutcomes, set \in NativeOutcomes :
           Win32ThawPositionCalls(key, get, set)
    \/ \E rc \in TopRects : Running /\ UserMove(rc)
    \/ Running /\ UserMaximize

SpecNative == InitNative /\ [][NextNative]_vars

InitFullScreen == InitAll

NextFullScreen ==
    \/ \E fullScreen \in BOOLEAN : SetFullScreen(fullScreen)
    \/ \E key \in PosKeys, get \in NativeOutcomes : Win32FreezePositionCalls(key, get)
    \/ SetVisible(TRUE)
    \/ \E rc \in TopRects : ~IsFullScreen /\ UserMove(rc)
    \/ ~IsFullScreen /\ UserMaximize

SpecFullScreen == InitFullScreen /\ [][NextFullScreen]_vars

InitWndProc == InitAll

NextWndProc ==
    \/ \E msg \in WndMessages, associated \in BOOLEAN, dropped \in BOOLEAN, item \in Items,
          deref \in ItemIdOutcomes :
           /\ dropped => msg \in ButtonMessages \cup KeyMessages
           /\ item # "i1" => msg = "WM_MENUCOMMAND"
           /\ deref # "item" => msg = "WM_MENUCOMMAND"
           /\ WndProc(msg, associated, dropped, item, deref)
    \/ \E msg \in WndMessages, wParam \in VirtualKeys :
           /\ wParam # "VK_A" => msg = "WM_KEYDOWN"
           /\ EditorWndProc(msg, wParam)
    \/ \E b \in BOOLEAN : ~wndLast.crashed /\ SetOnRender(b)
    \/ \E b \in BOOLEAN : ~wndLast.crashed /\ SetOnClose(b)
    \/ \E b \in BOOLEAN : ~wndLast.crashed /\ SetOnMouseEvent(b)
    \/ \E b \in BOOLEAN : ~wndLast.crashed /\ SetOnKeyboardEvent(b)
    \/ \E b \in BOOLEAN : ~wndLast.crashed /\ SetOnEditingDone(b)
    \/ \E b \in BOOLEAN : ~wndLast.crashed /\ SetOnScrollbarAdjusted(b)
    \/ ~wndLast.crashed /\ FatalErrorBegins

SpecWndProc == InitWndProc /\ [][NextWndProc]_vars

(***************************************************************************)
(* Claims about the timers, checked under SpecTimer.                       *)
(***************************************************************************)
\* Nothing of Timer t is left with the host and no handler of it is running.
Quiescent(t) ==
    /\ Registrations(t) = {}
    /\ \A m \in posted : m[1] # t
    /\ (running # NoHandler => running[1] # t)

\* The arming numbers of the fires whose handler ran on the live Timer t.
FiredArmings(t) ==
    {timerLog[t][i][2] : i \in {j \in 1..Len(timerLog[t]) :
                                   timerLog[t][j][1] \in {"Timeout", "NoCallback"}}}

\* The fires of Timer t that are pending in the host event loop: the timers
\* registered for it and the WM_TIMER messages posted for it and not yet
\* dispatched.
PendingFires(t) == Registrations(t) \cup {m \in posted : m[1] = t}

\* C1: in every reachable state at most one fire is pending in the host event
\* loop for each Timer, and it is the fire of the latest WindUp: a WindUp on
\* an armed Timer cancels the earlier pending fire before it schedules the
\* new one.
C1_AtMostOnePendingFire ==
    \A t \in Timers :
        /\ Cardinality(PendingFires(t)) <= 1
        /\ PendingFires(t) \subseteq {<<t, NumWindUps(t)>>}

\* WindUp was called exactly twice on t, the second time directly after the
\* first (before the first duration elapsed), and t was not destroyed.
ArmedTwiceInSuccession(t) ==
    /\ timerAlive[t]
    /\ NumWindUps(t) = 2
    /\ timerLog[t][1][1] = "WindUp"
    /\ timerLog[t][2][1] = "WindUp"

\* C2: after two WindUp calls in succession the fire handler runs at most
\* once, for the second arming only, so onTimeout is invoked at most once; and
\* once nothing of the Timer is pending any more it has run exactly once.
C2_TwoWindUpsOneTimeout ==
    \A t \in Timers :
        ArmedTwiceInSuccession(t) =>
            /\ HandlerRuns(t) <= 1
            /\ FiredArmings(t) \subseteq {2}
            /\ (Quiescent(t) => HandlerRuns(t) = 1)

\* C2 witness: armed twice in succession, the second arming has invoked
\* onTimeout, the callback has returned and nothing is pending.
C2_Witness ==
    \E t \in Timers :
        /\ ArmedTwiceInSuccession(t)
        /\ Quiescent(t)
        /\ CountOp(timerLog[t], "Timeout") = 1

\* C3: after a single WindUp the fire handler runs at most once, invoking
\* onTimeout when it is set; when it has run and returned the Timer is
\* disarmed (nothing registered, nothing posted, _connection empty), with or
\* without a callback.
C3_SingleShot ==
    \A t \in Timers :
        (timerAlive[t] /\ NumWindUps(t) = 1) =>
            /\ HandlerRuns(t) <= 1
            /\ (HandlerRuns(t) = 1 /\ (running # NoHandler => running[1] # t)) =>
                   /\ Quiescent(t)
                   /\ connection[t] = 0

\* C3 witness: one Timer fired its single arming into a callback that has
\* returned, another fired its single arming with no callback set.
C3_Witness ==
    \E t, u \in Timers :
        /\ timerAlive[t] /\ NumWindUps(t) = 1 /\ Quiescent(t)
        /\ CountOp(timerLog[t], "Timeout") = 1
        /\ timerAlive[u] /\ NumWindUps(u) = 1 /\ Quiescent(u)
        /\ CountOp(timerLog[u], "NoCallback") = 1

\* C4: once a Timer has been destroyed no fire handler reads onTimeout through
\* the destroyed object.
C4_NoFireAfterDestroy ==
    \A t \in Timers : CountOp(timerLog[t], "UseAfterFree") = 0

(***************************************************************************)
(* Claims about the event loop, checked under SpecLoop.                    *)
(***************************************************************************)
\* The bookkeeping of one PopUp call agrees with what the user did: no
\* onTrigger before a selection, none on a dismissal, and on a selection
\* exactly one invocation of the selected item's onTrigger (when it has one).
PopUpFrameOk(f) ==
    /\ f.fired <= 1
    /\ (f.choice = "none" => f.fired = 0 /\ f.phase = "modal")
    /\ (f.choice = "dismissed" => f.fired = 0)
    /\ (f.choice \in Items => f.fired = IF HasTrigger(f.choice) THEN 1 ELSE 0)

\* C5: a PopUp call that displayed its menu returns only after the user
\* selected an item or dismissed the menu; a selection invokes the item's
\* onTrigger exactly once, inside the PopUp call that has not returned; a
\* dismissal invokes no onTrigger.
C5_PopUpModal ==
    /\ \A k \in 1..Len(stack) :
           /\ stack[k].kind = "PopUp" => PopUpFrameOk(stack[k])
           /\ (stack[k].kind = "callback" /\ stack[k].what = "trigger") =>
                  \E j \in 1..(k - 1) :
                      /\ stack[j].kind = "PopUp"
                      /\ stack[j].phase = "resolved"
                      /\ stack[j].choice = stack[k].choice
    /\ popupDone.phase \notin {"-", "failed"} =>
           /\ popupDone.choice # "none"
           /\ PopUpFrameOk(popupDone)

\* The callback at place j is the onRender of the repaint that the Redraw
\* call directly below it asked for.
OwnRepaint(j) ==
    /\ stack[j].what = "paint"
    /\ j > 1
    /\ stack[j - 1].kind = "Redraw"

\* C6: the callback of a native event executes inside another callback only
\* across a PopUp call that has not returned; Redraw runs no callback of
\* another native event than its own repaint, SetScrollbarPosition none.
C6_OnlyPopUpReenters ==
    \A i, j \in 1..Len(stack) :
        (i < j /\ stack[i].kind = "callback" /\ IsNative(stack[j]) /\ ~OwnRepaint(j)) =>
            \E k \in (i + 1)..(j - 1) : stack[k].kind = "PopUp"

\* C7: at most one menu is displayed as a popup at any time.
C7_OnePopUpAtATime == Cardinality(shown) <= 1

(***************************************************************************)
(* Claims about the menu tree, checked under SpecMenu and SpecItem.        *)
(***************************************************************************)
\* C8: after Clear() the menu has no entries and owns no item and no submenu,
\* and every item and submenu it owned, directly or through a submenu, is
\* destroyed unless the caller can still get at it.
C8_ClearReleasesAll ==
    menuLast.op = "Clear" =>
        /\ entries[menuLast.menu] = <<>>
        /\ menuItems[menuLast.menu] = <<>>
        /\ subMenus[menuLast.menu] = <<>>
        /\ \A o \in menuLast.owned :
               o \in objAlive => o \in ReachableFrom(handles)

\* C9: a SetActive on an item whose indicator is NONE is rejected: the
\* assertion fails, and the item's active state is what it was.
C9_SetActiveNeedsIndicator ==
    (itemLast.op = "SetActive" /\ itemLast.was = "NONE") =>
        /\ aborted
        /\ active[itemLast.item] = itemLast.before

(***************************************************************************)
(* Claims about the editor overlay, checked under SpecEditor.              *)
(***************************************************************************)
\* C10: a ShowEditor while the overlay is visible leaves its position, size
\* and text as they were, and the overlay is moved only by a ShowEditor
\* called while it is hidden.
C10_ShowWhileVisibleIsNoOp ==
    /\ (edLast.op = "ShowEditor" /\ edLast.visible) =>
           (edRect = edLast.rect /\ edText = edLast.text)
    /\ edRect # edLast.rect => (edLast.op = "ShowEditor" /\ ~edLast.visible)

\* C11: a ShowEditor on a hidden editor, in a window that is shown, makes
\* the editor visible and makes its text the seed text, whatever the seed.
C11_ShowSeedsText ==
    (edLast.op = "ShowEditor" /\ ~edLast.visible /\ windowVisible) =>
        (IsEditorVisible /\ edText = edLast.arg.text)

\* C12: an Escape press while the editor is visible hides the editor and
\* does not invoke onEditingDone.
C12_EscapeHides ==
    (edLast.op = "Key" /\ edLast.visible /\ edLast.arg = <<"PRESS", "Escape">>) =>
        (~IsEditorVisible /\ edLast.done = <<>>)

\* C13: an Enter press while the editor is visible, onEditingDone being set,
\* invokes onEditingDone once, with the text of the editor, and leaves the
\* editor visible with that text.
C13_EnterReportsText ==
    (edLast.op = "Key" /\ edLast.visible /\ edLast.arg = <<"PRESS", "Enter">>
        /\ hasEditingDone) =>
        (edLast.done = <<edLast.text>> /\ IsEditorVisible /\ edText = edLast.text)

\* C14: a key press or release while the editor is visible does not reach
\* the keyboard callback of the rendering surface.
C14_EditorConsumesKeys ==
    (edLast.op = "Key" /\ edLast.visible) => edLast.keyed = <<>>

\* The overlay is at least as wide as the text is in its font, measured as
\* the adapter measures a text: gtk in Pango units, win32 in pixels.
WidthCovers(text) ==
    IF backend = "gtk"
    THEN edRect.w * PangoScale >= LayoutWidth(text, edFont.height, edFont.mono)
    ELSE edRect.w >= GetTextExtentPoint32W(text, edFont.height, edFont.mono)

\* C15: for every seed text and every minWidth, a ShowEditor on a hidden
\* editor makes the overlay at least minWidth wide and at least as wide as
\* the seed text followed by one more character, a space.
C15_WidthCoversSeed ==
    (edLast.op = "ShowEditor" /\ ~edLast.visible) =>
        /\ Whole(edRect.w) >= edLast.arg.minWidth
        /\ WidthCovers(Append(edLast.arg.text, " "))

(***************************************************************************)
(* Claims about the placement of a window, checked under SpecPlacement.    *)
(***************************************************************************)
\* C16: a FreezePosition on a window that is not visible writes nothing to
\* the configuration store.
C16_FreezeInvisibleIsNoOp ==
    (posLast.op = "FreezePosition" /\ ~posLast.visible) => cnf = posLast.cnf

\* C17: after a ThawPosition of a stored rectangle the window's rectangle
\* lies within the bounds of the monitor nearest the rectangle that was
\* stored.
C17_ThawOnScreen ==
    (posLast.op = "ThawPosition" /\ <<posLast.key, "left">> \in DOMAIN posLast.cnf) =>
        Within(winRect, NearestMonitor(posLast.stored))

(***************************************************************************)
(* Claims about the scrollbar, checked under SpecScrollbar.                *)
(***************************************************************************)
\* The range and the page size the native scrollbar holds, as doubles.
RangeMin == IF backend = "gtk" THEN sbMin ELSE FromUnits(sbMin)

RangeMax == IF backend = "gtk" THEN sbMax ELSE FromUnits(sbMax)

RangePage == IF backend = "gtk" THEN sbPage ELSE FromUnits(sbPage)

\* C18: ConfigureScrollbar(min, max, pageSize) does not reset the position: a
\* position within the new range min .. max stays what it was, a position
\* below min becomes min and a position above max becomes max.
C18_ConfigureKeepsPosition ==
    sbLast.op = "ConfigureScrollbar" =>
        LET min == sbLast.arg[1]
            max == sbLast.arg[2]
        IN  /\ (min <= sbLast.pos /\ sbLast.pos <= max) => Position = sbLast.pos
            /\ sbLast.pos < min => Position = min
            /\ sbLast.pos > max => Position = max

\* C19: once the scrollbar is configured, GetScrollbarPosition returns p
\* right after SetScrollbarPosition(p), for every p within the range that
\* is a multiple of 1 / SCROLLBAR_UNIT, whether or not SetScrollbarVisible
\* was ever called.
C19_SetThenGet ==
    (/\ sbLast.op = "SetScrollbarPosition"
     /\ <<RangeMin, RangeMax, RangePage>> \in ScrollRanges
     /\ RangeMin <= sbLast.arg
     /\ sbLast.arg <= RangeMax - RangePage
     /\ sbLast.arg % OneUnit = 0)
        => GetScrollbarPosition = sbLast.arg

\* C20: with onScrollbarAdjusted set, every SetScrollbarPosition call and
\* every user action that changes the position invokes the callback exactly
\* once, with the new position.
C20_OneCallbackPerChange ==
    /\ (sbLast.op = "SetScrollbarPosition" /\ hasScrollbarAdjusted)
           => sbLast.adjusted = <<Position>>
    /\ (sbLast.op = "UserScroll" /\ hasScrollbarAdjusted /\ Position # sbLast.pos)
           => sbLast.adjusted = <<Position>>

(***************************************************************************)
(* Claims about the menu bar, checked under SpecMenuBar.                   *)
(***************************************************************************)
\* C21: a window has at most one menu bar attached; SetMenuBar does not
\* destroy the menu bar that was attached before when the caller still
\* holds it, and it does not access a menu bar that was released (destroyed
\* because nothing held it any more).
C21_OneMenuBar ==
    /\ Cardinality(attachedBars) <= 1
    /\ barLast.op = "SetMenuBar" =>
           /\ barLast.previous \in barLast.held => barState[barLast.previous] = "alive"
           /\ ~barLast.accessedReleased

\* C22: SetMenuBar with the empty MenuBarRef completes without error in every
\* state (nothing undefined is done, the process goes on) and leaves the
\* window with no menu bar.
C22_NoMenuBarIsNormal ==
    (barLast.op = "SetMenuBar" /\ barLast.arg = 0) =>
        /\ ~barLast.nullDereferenced
        /\ ~barLast.accessedReleased
        /\ ~barCrashed
        /\ menuBar = 0
        /\ attachedBars = {}

(***************************************************************************)
(* Claims about the event model, checked under SpecEquals.                 *)
(***************************************************************************)
\* Two events have the same type, key tag, active union member, shiftDown
\* and controlDown.
SameFields(a, b) ==
    /\ a.type = b.type
    /\ a.key = b.key
    /\ IF a.key = "CHARACTER" THEN Chr(a) = Chr(b) ELSE Num(a) = Num(b)
    /\ a.shiftDown = b.shiftDown
    /\ a.controlDown = b.controlDown

\* C23: KeyboardEvent::Equals returns true exactly when the two events have
\* the same type, key tag, active union member, shiftDown and controlDown.
C23_EqualsIsStructural ==
    eqLast.op = "Equals" => (eqLast.result <=> SameFields(eqLast.a, eqLast.b))

\* Two character events that differ in shiftDown only were compared and
\* found different.
C23_Witness ==
    /\ eqLast.op = "Equals"
    /\ eqLast.a.key = "CHARACTER"
    /\ eqLast.a.shiftDown # eqLast.b.shiftDown
    /\ [eqLast.a EXCEPT !.shiftDown = eqLast.b.shiftDown] = eqLast.b
    /\ ~eqLast.result

(***************************************************************************)
(* Claims about pointer and key events, checked under SpecPointer and      *)
(* SpecKeyboard.                                                           *)
(***************************************************************************)
\* C24: the host's default handling of a mouse or keyboard event is
\* suppressed exactly when the registered callback was called for it and
\* returned true.
C24_SuppressedIffHandled ==
    inLast.op \in {"Pointer", "Key"} =>
        (inLast.suppressed <=> inLast.returned = <<TRUE>>)

\* C26: a key event with a modifier other than Shift and Control hands no
\* KeyboardEvent to the keyboard callback and is left to the host's default
\* handling.
C26_OtherModifiersDropped ==
    (inLast.op = "Key" /\ inLast.native.mods \ {"Shift", "Control"} # {}) =>
        (inLast.events = <<>> /\ ~inLast.suppressed)

\* C27: no character event is delivered as '.' or '>' with shiftDown set,
\* and the '.' key pressed with Shift is delivered as '>'.
C27_ShiftPeriodRewritten ==
    (inLast.op = "Key" /\ inLast.events # <<>> /\ inLast.events[1].key = "CHARACTER") =>
        /\ ~(Chr(inLast.events[1]) \in {CodeOf("."), CodeOf(">")} /\ inLast.events[1].shiftDown)
        /\ (inLast.native.key = "." /\ "Shift" \in inLast.native.mods)
               => Chr(inLast.events[1]) = CodeOf(">")

\* The held button that counts: LEFT before MIDDLE before RIGHT.
FirstHeld(held) ==
    IF held = {} THEN "NONE" ELSE ButtonOf(CHOOSE n \in held : \A m \in held : n <= m)

\* C28: the button of a delivered MouseEvent is the button the native event
\* is about when it is about one, whatever else is held; otherwise it is
\* the first of the held buttons, NONE when none is held.
C28_ExplicitButtonFirst ==
    (inLast.op = "Pointer" /\ inLast.events # <<>>) =>
        inLast.events[1].button =
            IF inLast.native.button # 0 THEN ButtonOf(inLast.native.button)
            ELSE FirstHeld(inLast.native.held)

\* C29: a vertical wheel event with a delta is delivered as one SCROLL_VERT
\* event with scrollDelta +1 (up) or -1 (down); a wheel event with no delta
\* or along the other axis delivers nothing and is left to the host.
C29_WheelDelta ==
    (inLast.op = "Pointer" /\ inLast.native.kind = "WHEEL") =>
        IF inLast.native.axis = "vertical" /\ inLast.native.delta # 0
        THEN hasMouseEvent =>
                 /\ Len(inLast.events) = 1
                 /\ inLast.events[1].type = "SCROLL_VERT"
                 /\ inLast.events[1].scrollDelta = inLast.native.delta
        ELSE inLast.events = <<>> /\ ~inLast.suppressed

\* C30: in the win32 adapter, with onMouseEvent set, a button or motion
\* event is not delivered exactly when it is the first press since a popup
\* menu was dismissed and comes less than 100 ms after that; every other
\* one is delivered.
C30_OnlyNextPressDropped ==
    (/\ backend = "win32"
     /\ inLast.op = "Pointer"
     /\ inLast.native.kind \in {"PRESS", "DBL_PRESS", "RELEASE", "MOTION", "LEAVE"}
     /\ hasMouseEvent)
        => (inLast.events = <<>> <=>
               /\ inLast.native.kind \in {"PRESS", "DBL_PRESS"}
               /\ inLast.firstPress
               /\ inLast.sinceCancel < ContextMenuCancelWindow)


(***************************************************************************)
(* Claims about failing native calls, checked under SpecNative.            *)
(***************************************************************************)
\* The first native call of the last operation that failed, 0 when none
\* did.
FirstFailed ==
    IF \E i \in DOMAIN nativeLast.calls : Failed(nativeLast.calls[i].outcome)
    THEN CHOOSE i \in DOMAIN nativeLast.calls :
             /\ Failed(nativeLast.calls[i].outcome)
             /\ \A j \in 1 .. i - 1 : ~Failed(nativeLast.calls[j].outcome)
    ELSE 0

\* C25: when a native call of an operation fails, the process ends with a
\* diagnostic that names the function and the call that failed; it does not
\* go on.
C25_NativeFailureIsFatal ==
    FirstFailed # 0 =>
        fatalError = <<[function |-> nativeLast.calls[FirstFailed].function,
                        expr |-> nativeLast.calls[FirstFailed].expr,
                        error |-> nativeLast.calls[FirstFailed].outcome.lastError]>>


\* C31: a key event that is delivered is delivered once, by a call of the
\* window's onKeyboardEvent and of nothing else.
C31_KeysGoToCallback ==
    (inLast.op = "Key" /\ inLast.events # <<>>) =>
        /\ inLast.to = "onKeyboardEvent"
        /\ Len(inLast.events) = 1
        /\ Len(inLast.returned) = 1

\* C37: in the win32 adapter a wheel message that is sent on to the window
\* under the pointer delivers nothing to onMouseEvent of the window that
\* sent it on.
C37_ForwardedWheelNotDelivered ==
    (/\ backend = "win32"
     /\ inLast.op = "Pointer"
     /\ inLast.native.kind = "WHEEL"
     /\ inLast.native.axis = "vertical"
     /\ inLast.native.underOther)
        => inLast.events = <<>>

\* C38: ThawPosition leaves the visibility of the window as it was.
C38_ThawKeepsVisibility ==
    [][(\E key \in PosKeys : ThawPosition(key)) => windowVisible' = windowVisible]_vars


\* Nothing is stored under the key.
NothingStored(key) == \A n \in DOMAIN cnf : n[1] # key

\* The window was stored under the key by a FreezePosition, visible and
\* within its monitor, the store was not changed since, and the window is
\* visible and within its monitor now, as is the rectangle that was stored.
FrozenWithinMonitor(key) ==
    /\ posLast.frozen[key] # NotFrozen
    /\ VisibleWithinMonitor
    /\ \E m \in monitors : Within(posLast.frozen[key][1].rect, m)

\* C39: for a visible window within its monitor, a ThawPosition(key) after
\* a FreezePosition(key), the store unchanged in between, puts the window
\* where it was at the FreezePosition, with the size and the maximized flag
\* it had then, whatever the user did to the window in between; and a
\* ThawPosition for a key under which nothing is stored leaves position and
\* size as they are.
C39_FreezeThawRoundTrip ==
    [][\A key \in PosKeys :
          ThawPosition(key) =>
              /\ FrozenWithinMonitor(key) =>
                     /\ OnScreen' = posLast.frozen[key][1].rect
                     /\ winMaximized' = posLast.frozen[key][1].maximized
              /\ NothingStored(key) => OnScreen' = OnScreen]_vars


\* C33: in the win32 adapter a line-up or page-up of the user reports no
\* position greater than the current one, and at the top of the range it
\* reports the minimum.
C33_ScrollUpNeverIncreases ==
    (/\ backend = "win32"
     /\ sbLast.op = "UserScroll"
     /\ sbLast.arg[1] \in {"SB_LINEUP", "SB_PAGEUP"}
     /\ sbLast.adjusted # <<>>)
        => /\ sbLast.adjusted[1] <= Position
           /\ Position = RangeMin => sbLast.adjusted[1] = RangeMin


(***************************************************************************)
(* More claims about the timers, checked under SpecTimer.                  *)
(***************************************************************************)
\* The onTimeout callback of the live Timer t is executing and has called
\* WindUp on t: a WindUp is logged after the Timeout of the fire that is
\* running.
RearmedInCallback(t) ==
    /\ timerAlive[t]
    /\ running # NoHandler
    /\ running[1] = t
    /\ \E j \in 1 .. Len(timerLog[t]) :
           /\ timerLog[t][j][1] = "WindUp"
           /\ \E i \in 1 .. j - 1 : timerLog[t][i][1] = "Timeout"
           /\ \A i \in j + 1 .. Len(timerLog[t]) : timerLog[t][i][1] # "Timeout"

\* How often the fire handler ran for arming n of t.
RunsOfArming(t, n) ==
    Cardinality({i \in 1 .. Len(timerLog[t]) :
                    timerLog[t][i] \in {<<"Timeout", n>>, <<"NoCallback", n>>}})

\* C34: when onTimeout calls WindUp on its own Timer, the new arming and
\* nothing else is pending for the rest of the callback and when the
\* callback has returned, and no arming runs the handler twice.
C34_RearmInsideCallback ==
    [][\A t \in Timers :
          /\ RearmedInCallback(t)' => Registrations(t)' = {<<t, NumWindUps(t)'>>}
          /\ (RearmedInCallback(t) /\ running' = NoHandler)
                 => Registrations(t)' = {<<t, NumWindUps(t)>>}
          /\ \A n \in 1 .. MaxWindUps : RunsOfArming(t, n)' <= 1]_vars

\* The callback of the first arming of a Timer is executing and has called
\* WindUp on it: the second arming is pending.
C34_Witness ==
    \E t \in Timers :
        /\ running = <<t, 1>>
        /\ RearmedInCallback(t)
        /\ Registrations(t) = {<<t, 2>>}


(***************************************************************************)
(* More claims about menu items, checked under SpecItem.                   *)
(***************************************************************************)
\* C35: SetActive invokes no onTrigger, whether or not it changes the
\* active state; an activation by the user invokes the onTrigger of the
\* item, when it has one, once, and that of no other item.
C35_SetActiveDoesNotTrigger ==
    [][\A i \in Items :
          /\ (\E b \in BOOLEAN : SetActive(i, b)) => triggered' = triggered
          /\ (\E deref \in ItemIdOutcomes : UserActivate(i, deref)) =>
                 triggered' = [triggered EXCEPT ![i] = @ + (IF HasTrigger(i) THEN 1 ELSE 0)]]_vars


(***************************************************************************)
(* More claims about the editor overlay, checked under SpecEditor.         *)
(***************************************************************************)
\* C36: in the gtk adapter the overlay holds the modal grab exactly when
\* the editor is visible.
C36_GrabIffEditorVisible ==
    backend = "gtk" => (edGrab <=> IsEditorVisible)


(***************************************************************************)
(* Claims about the full screen state, checked under SpecFullScreen.       *)
(***************************************************************************)
\* C32: in the win32 adapter SetFullScreen(false) on a full screen window
\* puts the window back where it was, and as it was, immediately before it
\* went full screen, whatever SetFullScreen(true) and FreezePosition calls
\* came in between.
C32_FullScreenRestoresPlacement ==
    [][(IsFullScreen /\ SetFullScreen(FALSE)) =>
           /\ winRect' = fsLast.before[1].rect
           /\ winMaximized' = fsLast.before[1].maximized]_vars

(***************************************************************************)
(* Claims about the window procedures, checked under SpecWndProc.          *)
(***************************************************************************)
\* C40: in the win32 adapter a message that arrives at WndProc or at
\* EditorWndProc while handlingFatalError is set ends in no callback.
C40_NoCallbackWhileHandlingFatalError ==
    wndLast.handling => wndLast.invoked = <<>>

C40_Witness ==
    /\ wndLast.proc = "WndProc"
    /\ wndLast.handling
    /\ wndLast.would = <<"onRender">>
    /\ wndLast.invoked = <<>>

=============================================================================
